---- MODULE Spec2Model ----
(***************************************************************************)
(* Job orchestration layer of the Mirror kiosk backend:                    *)
(*   - AIProcessor    (bounded-concurrency generation queue)               *)
(*   - PrinterQueue   (serial, retrying print-job state machine)           *)
(*   - CameraService  (live-frame broadcaster over a camera driver)        *)
(*                                                                         *)
(* The program runs on the Node.js event loop.  A state of the model is a  *)
(* point between two callbacks.  Macrotasks (an HTTP request calling       *)
(* enqueue, an I/O completion, a timer or setImmediate callback) are only  *)
(* taken when no promise continuation (microtask) is pending, because the  *)
(* event loop drains the microtask queue before it takes the next          *)
(* macrotask.                                                              *)
(***************************************************************************)
EXTENDS Integers, Sequences, FiniteSets, TLC

\* ------------------------------------------------------------------ bounds
MaxRequests == 3      \* generation requests enqueued in one behaviour
MaxParallel == 2      \* largest configured maxParallelJobs
MaxPrintJobs == 3     \* print jobs enqueued in one behaviour
MaxRetries == 2       \* largest configured queueRetries
MaxLiveRetries == 1   \* largest queueRetries under SpecPQLive
MaxDriverCalls == 3   \* driver frame/capture requests in one behaviour
MaxClients == 2       \* live-view listeners that may register
MaxAsked == 10        \* largest `variations` a request asks for
MaxRuns == 2          \* generate() calls on one request

VARIABLES
    \* ---- AIProcessor
    maxParallelJobs,  \* options.maxParallelJobs
    aiQueue,          \* AIProcessor.queue: sequence of PendingJob
    activeJobs,       \* AIProcessor.activeJobs
    aiRunning,        \* runJob activations that have not reached .finally
    aiPromise,        \* the promise enqueue returned, per caller
    aiImmediates,     \* pending setImmediate(() => this.processQueue())
    aiEnqueued,       \* number of enqueue calls so far
    aiAdmitted,       \* callers in the order their job was admitted
    \* ---- PrinterQueue
    queueRetries,     \* options.queueRetries
    pqQueue,          \* PrinterQueue.queue: sequence of job ids
    pqJobs,           \* PrinterQueue.jobs: id -> PrintJobState
    processing,       \* PrinterQueue.processing
    pqDrains,         \* activations of tick() that passed the guard, each
                      \* with its position, its job and how its last
                      \* print command ended
    pqHist,           \* per job: times set to printing, dispatch calls
    \* ---- CameraService
    liveInterval,     \* CameraService.liveInterval is set (a timer handle)
    camTimers,        \* interval timers set and not cleared
    liveViewEnabled,  \* CameraService.liveViewEnabled
    liveViewClients,  \* CameraService.liveViewClients: a Set, kept as the
                      \* sequence of its members in insertion order
    latestFrame,      \* CameraService.latestFrame (0: undefined)
    lastCapture,      \* CameraService.lastCapture (0: undefined)
    camInflight,      \* driver requests started and not yet returned
    camCalls,         \* number of driver requests started so far
    camLast,          \* the frame request (driver request, or cache hit of
                      \* getLatestFrame) that returned last: how it
                      \* ended and which listeners were called with it
    \* ---- backend server (HTTP and WebSocket handlers over CameraService)
    wssClients,       \* wss.clients: the open /live sockets
    apiResume,        \* POST /capture handlers with resumeLive set that
                      \* await camera.capture(), by driver request
    liveQuiet,        \* the last listener has unregistered and since then
                      \* no socket connected and no capture was requested
    liveStopped,      \* gracefulShutdown stopped live view and nothing
                      \* has started it since
    \* ---- CameraService.initialize
    driver,           \* CameraService.driver: "none" (unset), "canon", "mock"
    boot,             \* the platform and environment flag, the position of
                      \* initialize(), and how each driver construction and
                      \* init ended
    \* ---- AIProcessor.generate on its own
    genRequest,       \* the AIJobRequest handed to generate()
    genRuns,          \* what each generate(genRequest) call produced
    \* ---- legacy AIProcessor (src/app/ai/processor.ts)
    lgMaxParallelJobs, \* AIProcessor.maxParallelJobs
    lgQueue,          \* AIProcessor.queue: sequence of AIJobRequest
    lgActiveJobs,     \* AIProcessor.activeJobs
    lgTimers,         \* pending setTimeout callbacks, oldest first, each
                      \* with the job and the resolver it closes over
    lgPromise,        \* the promise enqueue returned, per caller
    lgEnqueued        \* number of enqueue calls so far

aiVars == <<maxParallelJobs, aiQueue, activeJobs, aiRunning, aiPromise,
            aiImmediates, aiEnqueued, aiAdmitted>>

pqVars == <<queueRetries, pqQueue, pqJobs, processing, pqDrains, pqHist>>

camVars == <<liveInterval, camTimers, liveViewEnabled, liveViewClients, latestFrame,
             lastCapture, camInflight, camCalls, camLast>>

srvVars == <<wssClients, apiResume, liveQuiet, liveStopped>>

drvVars == <<driver, boot>>

genVars == <<genRequest, genRuns>>

lgVars == <<lgMaxParallelJobs, lgQueue, lgActiveJobs, lgTimers, lgPromise,
            lgEnqueued>>

vars == <<aiVars, pqVars, camVars, srvVars, drvVars, genVars, lgVars>>

\* What the actions of one component leave alone.
notAI == <<pqVars, camVars, srvVars, drvVars, genVars, lgVars>>

notPQ == <<aiVars, camVars, srvVars, drvVars, genVars, lgVars>>

notCam == <<aiVars, pqVars, srvVars, drvVars, genVars, lgVars>>

notLive == <<aiVars, pqVars, drvVars, genVars, lgVars>>

notBoot == <<aiVars, pqVars, camVars, srvVars, genVars, lgVars>>

notLegacy == <<aiVars, pqVars, camVars, srvVars, drvVars, genVars>>

notGen == <<aiVars, pqVars, camVars, srvVars, drvVars, lgVars>>

\* The set of elements of a sequence.
Range(f) == {f[i] : i \in DOMAIN f}

\* ------------------------------------------------------------ AIProcessor

Callers == 1..MaxRequests

\* AIJobRequest: id stands for the request's content (style, prompt, image),
\* hasSource for "sourcePath || base64".
AIJobRequest(id, hasSource) == [id |-> id, hasSource |-> hasSource]

\* Mutant: every job carries the resolve/reject of the first caller.
PendingJob_firstResolver(request, caller) ==
    [request |-> request, caller |-> 1]

\* PendingJob { request, resolve, reject }: resolve and reject belong to the
\* promise of `caller`.
PendingJob(request, caller) == [request |-> request, caller |-> caller]

NoValue == [kind |-> "none", of |-> 0]

\* new Promise(...): pending, resolve/reject not called yet.
NewPromise == [state |-> "pending", value |-> NoValue, calls |-> 0]

\* resolve(value) / reject(error) of a promise: only the first call settles
\* it; calls counts every invocation.
PromiseSettle(p, state, value) ==
    IF p.state = "pending"
    THEN [state |-> state, value |-> value, calls |-> p.calls + 1]
    ELSE [p EXCEPT !.calls = p.calls + 1]

\* generate(): the guard that throws 'AI job missing source image'.
AI_generateThrows(request) == ~request.hasSource

\* generate(): the AIJobResult built from the request it was given.
AI_generateResult(request) == [kind |-> "result", of |-> request.id]

\* the Error generate() raises for a request.
AI_generateError(request, msg) == [kind |-> msg, of |-> request.id]

\* Mutant: the capacity test is off by one (`>` for `>=`).
AI_atCapacity_offByOne == activeJobs > maxParallelJobs

\* processQueue(): `this.activeJobs >= this.options.maxParallelJobs`
AI_atCapacity == activeJobs >= maxParallelJobs

\* runJob(job) up to its first suspension: generate() either throws at once
\* (its promise is already rejected: phase "returned") or suspends on image
\* I/O (phase "running").
AI_runJob(job) ==
    IF AI_generateThrows(job.request)
    THEN [job |-> job, phase |-> "returned", outcome |-> "InvalidRequest"]
    ELSE [job |-> job, phase |-> "running", outcome |-> "none"]

\* Mutant: processQueue takes the newest request (pop for shift).
AI_processQueue_pop(q) ==
    IF AI_atCapacity \/ q = <<>>
    THEN /\ aiQueue' = q
         /\ UNCHANGED <<activeJobs, aiRunning, aiAdmitted>>
    ELSE LET job == q[Len(q)] IN
         /\ aiQueue' = SubSeq(q, 1, Len(q) - 1)
         /\ activeJobs' = activeJobs + 1
         /\ aiRunning' = aiRunning \cup {AI_runJob(job)}
         /\ aiAdmitted' = Append(aiAdmitted, job.caller)

\* Mutant: a job is admitted without being counted.
AI_processQueue_uncounted(q) ==
    IF AI_atCapacity \/ q = <<>>
    THEN /\ aiQueue' = q
         /\ UNCHANGED <<activeJobs, aiRunning, aiAdmitted>>
    ELSE LET job == Head(q) IN
         /\ aiQueue' = Tail(q)
         /\ activeJobs' = activeJobs
         /\ aiRunning' = aiRunning \cup {AI_runJob(job)}
         /\ aiAdmitted' = Append(aiAdmitted, job.caller)

\* processQueue() called with the queue holding q.
AI_processQueue(q) ==
    IF AI_atCapacity \/ q = <<>>
    THEN /\ aiQueue' = q
         /\ UNCHANGED <<activeJobs, aiRunning, aiAdmitted>>
    ELSE LET job == Head(q) IN
         /\ aiQueue' = Tail(q)
         /\ activeJobs' = activeJobs + 1
         /\ aiRunning' = aiRunning \cup {AI_runJob(job)}
         /\ aiAdmitted' = Append(aiAdmitted, job.caller)

\* getPendingJobs()
AI_getPendingJobs == Len(aiQueue) + activeJobs

\* No promise continuation of the AIProcessor is pending.
AI_microtasksIdle == \A r \in aiRunning : r.phase = "running"

\* Mutant: enqueue pushes the job and leaves admission to the completions.
AI_enqueue_pushOnly(hasSource) ==
    /\ AI_microtasksIdle
    /\ aiEnqueued < MaxRequests
    /\ LET c == aiEnqueued + 1
           job == PendingJob(AIJobRequest(c, hasSource), c)
       IN /\ aiEnqueued' = c
          /\ aiPromise' = [aiPromise EXCEPT ![c] = NewPromise]
          /\ aiQueue' = Append(aiQueue, job)
    /\ UNCHANGED <<maxParallelJobs, aiImmediates, activeJobs, aiRunning,
                   aiAdmitted>>

\* enqueue(request): new Promise, queue.push, processQueue().
AI_enqueue(hasSource) ==
    /\ AI_microtasksIdle
    /\ aiEnqueued < MaxRequests
    /\ LET c == aiEnqueued + 1
           job == PendingJob(AIJobRequest(c, hasSource), c)
       IN /\ aiEnqueued' = c
          /\ aiPromise' = [aiPromise EXCEPT ![c] = NewPromise]
          /\ AI_processQueue(Append(aiQueue, job))
    /\ UNCHANGED <<maxParallelJobs, aiImmediates>>

\* generate() of an admitted job finishes its image I/O: it returns the
\* result (ok) or raises an I/O or pipeline error.
AI_generateDone(r, ok) ==
    /\ AI_microtasksIdle
    /\ r \in aiRunning /\ r.phase = "running"
    /\ aiRunning' = (aiRunning \ {r}) \cup
          {[r EXCEPT !.phase = "returned",
                     !.outcome = IF ok THEN "ok" ELSE "GenerationFailed"]}
    /\ UNCHANGED <<maxParallelJobs, aiQueue, activeJobs, aiPromise,
                   aiImmediates, aiEnqueued, aiAdmitted>>

\* Mutant: a failed job is pushed back on the queue instead of rejected.
AI_runJobSettle_retry(r) ==
    /\ r \in aiRunning /\ r.phase = "returned"
    /\ LET c == r.job.caller IN
       IF r.outcome = "ok"
       THEN /\ aiPromise' = [aiPromise EXCEPT ![c] =
                 PromiseSettle(@, "resolved", AI_generateResult(r.job.request))]
            /\ UNCHANGED aiQueue
       ELSE /\ aiQueue' = Append(aiQueue, r.job)
            /\ UNCHANGED aiPromise
    /\ aiRunning' = (aiRunning \ {r}) \cup {[r EXCEPT !.phase = "settled"]}
    /\ UNCHANGED <<maxParallelJobs, activeJobs, aiImmediates, aiEnqueued,
                   aiAdmitted>>

\* runJob(): `job.resolve(result)` after the await, or the rethrow that
\* reaches `.catch((error) => job.reject(error))`.
AI_runJobSettle(r) ==
    /\ r \in aiRunning /\ r.phase = "returned"
    /\ LET c == r.job.caller IN
       aiPromise' = [aiPromise EXCEPT ![c] =
          IF r.outcome = "ok"
          THEN PromiseSettle(@, "resolved", AI_generateResult(r.job.request))
          ELSE PromiseSettle(@, "rejected",
                             AI_generateError(r.job.request, r.outcome))]
    /\ aiRunning' = (aiRunning \ {r}) \cup {[r EXCEPT !.phase = "settled"]}
    /\ UNCHANGED <<maxParallelJobs, aiQueue, activeJobs, aiImmediates,
                   aiEnqueued, aiAdmitted>>

\* Mutant: the slot is released as soon as generate() has returned, before
\* the caller's promise is settled.
AI_finally_beforeSettle(r) ==
    /\ r \in aiRunning /\ r.phase \in {"returned", "settled"}
    /\ activeJobs' = activeJobs - 1
    /\ aiImmediates' = aiImmediates + 1
    /\ aiRunning' = aiRunning \ {r}
    /\ UNCHANGED <<maxParallelJobs, aiQueue, aiPromise, aiEnqueued,
                   aiAdmitted>>

\* Mutant: the slot is released but processQueue is not called again.
AI_finally_noImmediate(r) ==
    /\ r \in aiRunning /\ r.phase = "settled"
    /\ activeJobs' = activeJobs - 1
    /\ aiRunning' = aiRunning \ {r}
    /\ UNCHANGED <<maxParallelJobs, aiQueue, aiPromise, aiEnqueued,
                   aiAdmitted, aiImmediates>>

\* Mutant: the release runs in .then(), so a failed job keeps its slot.
AI_finally_successOnly(r) ==
    /\ r \in aiRunning /\ r.phase = "settled"
    /\ IF r.outcome = "ok"
       THEN /\ activeJobs' = activeJobs - 1
            /\ aiImmediates' = aiImmediates + 1
       ELSE UNCHANGED <<activeJobs, aiImmediates>>
    /\ aiRunning' = aiRunning \ {r}
    /\ UNCHANGED <<maxParallelJobs, aiQueue, aiPromise, aiEnqueued,
                   aiAdmitted>>

\* .finally(): activeJobs -= 1; setImmediate(() => this.processQueue()).
AI_finally(r) ==
    /\ r \in aiRunning /\ r.phase = "settled"
    /\ activeJobs' = activeJobs - 1
    /\ aiImmediates' = aiImmediates + 1
    /\ aiRunning' = aiRunning \ {r}
    /\ UNCHANGED <<maxParallelJobs, aiQueue, aiPromise, aiEnqueued,
                   aiAdmitted>>

\* The setImmediate callback: processQueue().
AI_immediate ==
    /\ AI_microtasksIdle
    /\ aiImmediates > 0
    /\ aiImmediates' = aiImmediates - 1
    /\ AI_processQueue(aiQueue)
    /\ UNCHANGED <<maxParallelJobs, aiPromise, aiEnqueued>>

AIInit ==
    /\ maxParallelJobs \in 1..MaxParallel
    /\ aiQueue = <<>>
    /\ activeJobs = 0
    /\ aiRunning = {}
    /\ aiPromise = [c \in Callers |-> [state |-> "none", value |-> NoValue,
                                       calls |-> 0]]
    /\ aiImmediates = 0
    /\ aiEnqueued = 0
    /\ aiAdmitted = <<>>

\* --------------------------------------------------- AIProcessor.generate

\* An optional numeric field of the request.
Omitted == [given |-> FALSE, value |-> 0]

Given(v) == [given |-> TRUE, value |-> v]

\* `x ?? d`
Nullish(x, d) == IF x.given THEN x.value ELSE d

Min(a, b) == IF a <= b THEN a ELSE b

Max(a, b) == IF a >= b THEN a ELSE b

\* Mutant: the lower clamp of variations is missing.
AI_variations_noFloor(request) == Min(5, Nullish(request.variations, 1))

\* generate(): Math.max(1, Math.min(5, request.variations ?? 1))
AI_variations(request) == Max(1, Min(5, Nullish(request.variations, 1)))

\* generate(): Math.min(1, Math.max(0, request.intensity ?? 0.7)), in
\* hundredths.
AI_intensity(request) == Min(100, Max(0, Nullish(request.intensity, 70)))

\* Mutant: the factor also depends on the run.
AI_variationFactor_perRun(seed) == 20 + ((seed * 13 + Len(genRuns)) % 7)

\* Mutant: the numerator is taken modulo 4.
AI_variationFactor_shortCycle(seed) == 20 + ((seed * 13) % 4)

\* applyStyle(): variationFactor = 1 + (((seed * 13) % 7) / 20), in
\* twentieths.
AI_variationFactor(seed) == 20 + ((seed * 13) % 7)

\* applyStyle(): what the image pipeline is given: the style's preset, the
\* intensity (saturation, brightness, blur, tint) and the seed (saturation
\* through the variation factor, blur).
AI_applyStyle(style, intensity, seed) ==
    [style |-> style, intensity |-> intensity, seed |-> seed,
     factor |-> AI_variationFactor(seed)]

\* generate(): the loop `for (let i = 0; i < variations; i += 1)` from i on;
\* each turn pushes one output and one preview of the same buffer.
RECURSIVE AI_generateLoop(_, _, _, _)
AI_generateLoop(style, intensity, variations, i) ==
    IF i < variations
    THEN <<[v |-> i + 1, image |-> AI_applyStyle(style, intensity, i)]>>
           \o AI_generateLoop(style, intensity, variations, i + 1)
    ELSE <<>>

\* generate(request): the AIJobResult, or the error it raises (no source,
\* or an I/O or pipeline failure: ~ok).
AI_generate(request, ok) ==
    IF AI_generateThrows(request)
    THEN [ok |-> FALSE, error |-> "InvalidRequest", outputs |-> <<>>,
          previews |-> <<>>]
    ELSE IF ~ok
    THEN [ok |-> FALSE, error |-> "GenerationFailed", outputs |-> <<>>,
          previews |-> <<>>]
    ELSE LET made == AI_generateLoop(request.style, AI_intensity(request),
                                     AI_variations(request), 0)
         IN [ok |-> TRUE, error |-> "none", outputs |-> made,
             previews |-> [k \in DOMAIN made |-> made[k].image]]

\* generate(genRequest) is called and returns.
Gen_generate(ok) ==
    /\ Len(genRuns) < MaxRuns
    /\ genRuns' = Append(genRuns, AI_generate(genRequest, ok))
    /\ UNCHANGED genRequest

\* The values of `variations` (a count: whole numbers, as the request schema
\* of the API has it) and `intensity` (hundredths) a request may carry, in
\* and out of range.
AskedVariations == {Omitted} \cup {Given(v) : v \in -2..MaxAsked}

AskedIntensity == {Omitted} \cup {Given(v) : v \in {-100, 0, 35, 100, 200}}

GenInit ==
    /\ genRequest \in [id : {1}, hasSource : BOOLEAN,
                       style : {"Cartoon", "Cyberpunk"},
                       variations : AskedVariations,
                       intensity : AskedIntensity]
    /\ genRuns = <<>>

\* generate() is not called on its own.
GenParked ==
    /\ genRequest = [id |-> 1, hasSource |-> TRUE, style |-> "Cartoon",
                     variations |-> Omitted, intensity |-> Omitted]
    /\ genRuns = <<>>

\* ------------------------------------------------------ legacy AIProcessor

\* The `variations` a request to POST /ai/process carries (3 when the body
\* has none).
LgVariations == {1, 3}

\* AIJobRequest: id stands for capturePath, style and prompt.
Lg_AIJobRequest(id, variations) == [id |-> id, variations |-> variations]

\* The AIJobResult of a job: `variations` output paths derived from the
\* job's capturePath.
Lg_AIJobResult(job) == [of |-> job.id, count |-> job.variations]

Lg_NoResult == [of |-> 0, count |-> 0]

\* processQueue(resolver) with the queue holding q, `active` jobs running
\* and the timers in `timers`: at capacity or with nothing queued it
\* returns (the resolver is dropped); otherwise it shifts the head and sets
\* the timer, whose callback closes over that job and this resolver.
Lg_processQueue(q, active, timers, resolver) ==
    IF active >= lgMaxParallelJobs \/ Len(q) = 0
    THEN /\ lgQueue' = q
         /\ lgActiveJobs' = active
         /\ lgTimers' = timers
    ELSE /\ lgQueue' = Tail(q)
         /\ lgActiveJobs' = active + 1
         /\ lgTimers' = Append(timers, [job |-> Head(q), resolver |-> resolver])

\* enqueue(job): new Promise, queue.push(job), processQueue(resolve).
Lg_enqueue(variations) ==
    /\ lgEnqueued < MaxRequests
    /\ LET c == lgEnqueued + 1 IN
       /\ lgEnqueued' = c
       /\ lgPromise' = [lgPromise EXCEPT ![c] =
              [state |-> "pending", value |-> Lg_NoResult, calls |-> 0]]
       /\ Lg_processQueue(Append(lgQueue, Lg_AIJobRequest(c, variations)),
                          lgActiveJobs, lgTimers, c)
    /\ UNCHANGED lgMaxParallelJobs

\* The setTimeout callback (the timers have one delay, so the oldest fires
\* first): activeJobs -= 1; resolver(result of its job);
\* processQueue(resolver).
Lg_timeout ==
    /\ lgTimers # <<>>
    /\ LET t == Head(lgTimers) IN
       /\ lgPromise' = [lgPromise EXCEPT ![t.resolver] =
              PromiseSettle(@, "resolved", Lg_AIJobResult(t.job))]
       /\ Lg_processQueue(lgQueue, lgActiveJobs - 1, Tail(lgTimers),
                          t.resolver)
    /\ UNCHANGED <<lgMaxParallelJobs, lgEnqueued>>

LgInit ==
    /\ lgMaxParallelJobs \in 1..MaxParallel
    /\ lgQueue = <<>>
    /\ lgActiveJobs = 0
    /\ lgTimers = <<>>
    /\ lgPromise = [c \in Callers |->
                       [state |-> "none", value |-> Lg_NoResult, calls |-> 0]]
    /\ lgEnqueued = 0

LgParked == LgInit /\ lgMaxParallelJobs = 1

\* ----------------------------------------------------------- PrinterQueue

\* Job ids are the enqueue order (the source builds a unique string).
PQ_ids == DOMAIN pqJobs

\* options.defaultCopies, and options.targetPrinters[0] (printers are
\* numbered).
defaultCopies == 1

targetPrinter == 1

\* A PrintJob that leaves copies and printer to the defaults, and the
\* PrintJobs a caller may pass.
PlainJob == [copies |-> Omitted, printer |-> Omitted]

PrintJobs == {PlainJob, [copies |-> Given(2), printer |-> Given(2)]}

\* enqueue(): the PrintJobState record.
PrintJobState(id, job) ==
    [id |-> id, status |-> "queued", attempts |-> 0, error |-> "none",
     copies |-> Nullish(job.copies, defaultCopies),
     printer |-> Nullish(job.printer, targetPrinter)]

\* spawnCommand(): how the child process ends.
SpawnOutcomes == {"exit0", "exitNonZero", "ENOENT", "spawnError"}

\* Mutant: spawnCommand without the ENOENT branch.
PQ_spawnResolves_noHatch(outcome) == outcome = "exit0"

\* spawnCommand(): the promise resolves on exit code 0 and on an 'error'
\* event with code ENOENT; every other end rejects it.
PQ_spawnResolves(outcome) == outcome \in {"exit0", "ENOENT"}

\* the message of the Error spawnCommand rejects with.
PQ_spawnMessage(outcome) ==
    IF outcome = "exitNonZero" THEN "exited with code" ELSE "spawn error"

\* Mutant: one retry too many.
PQ_mayRetry_lenient(attempts) == attempts <= queueRetries + 1

\* Mutant: the retry test is `<` for `<=`.
PQ_mayRetry_strict(attempts) == attempts < queueRetries

\* processJob() catch: `job.attempts <= this.options.queueRetries`
PQ_mayRetry(attempts) == attempts <= queueRetries

\* Mutant: tick() without its reentrancy guard.
PQ_tickGuard_missing == FALSE

\* tick(): `if (this.processing) return;`
PQ_tickGuard == processing

\* No continuation of a drain loop is pending.
PQ_microtasksIdle == \A d \in pqDrains : d.pc # "loop"

\* Mutant: the loop is left without clearing the flag.
PQ_while_stuckFlag(id, q, jobs, hist, others) ==
    IF Len(q) > 0
    THEN LET job == Head(q) IN
         /\ pqQueue' = Tail(q)
         /\ pqJobs' = [jobs EXCEPT ![job].status = "printing"]
         /\ pqHist' = [hist EXCEPT ![job].printings = @ + 1]
         /\ pqDrains' = others \cup
               {[id |-> id, pc |-> "access", job |-> job, spawn |-> "none"]}
         /\ processing' = TRUE
    ELSE /\ pqQueue' = q
         /\ pqJobs' = jobs
         /\ pqHist' = hist
         /\ pqDrains' = others
         /\ processing' = TRUE

\* Mutant: the job taken from the queue keeps the status `queued`.
PQ_while_keepStatus(id, q, jobs, hist, others) ==
    IF Len(q) > 0
    THEN LET job == Head(q) IN
         /\ pqQueue' = Tail(q)
         /\ pqJobs' = jobs
         /\ pqHist' = [hist EXCEPT ![job].printings = @ + 1]
         /\ pqDrains' = others \cup
               {[id |-> id, pc |-> "access", job |-> job, spawn |-> "none"]}
         /\ processing' = TRUE
    ELSE /\ pqQueue' = q
         /\ pqJobs' = jobs
         /\ pqHist' = hist
         /\ pqDrains' = others
         /\ processing' = FALSE

\* tick(): the while loop of drain `id`, from its head, with the queue
\* holding q and the table holding jobs: either shift the next job and run
\* processJob up to `await access(job.filePath)`, or leave the loop and
\* clear the flag.
PQ_while(id, q, jobs, hist, others) ==
    IF Len(q) > 0
    THEN LET job == Head(q) IN
         /\ pqQueue' = Tail(q)
         /\ pqJobs' = [jobs EXCEPT ![job].status = "printing"]
         /\ pqHist' = [hist EXCEPT ![job].printings = @ + 1]
         /\ pqDrains' = others \cup
               {[id |-> id, pc |-> "access", job |-> job, spawn |-> "none"]}
         /\ processing' = TRUE
    ELSE /\ pqQueue' = q
         /\ pqJobs' = jobs
         /\ pqHist' = hist
         /\ pqDrains' = others
         /\ processing' = FALSE

\* tick() called from enqueue, with the queue holding q.
PQ_tick(id, q, jobs, hist) ==
    IF PQ_tickGuard
    THEN /\ pqQueue' = q
         /\ pqJobs' = jobs
         /\ pqHist' = hist
         /\ UNCHANGED <<processing, pqDrains>>
    ELSE PQ_while(id, q, jobs, hist, pqDrains)

\* What Map.get gives for a key that is not in the table (undefined).
PQ_notFound == [id |-> 0, status |-> "not-found", attempts |-> 0,
                error |-> "none", copies |-> 0, printer |-> 0]

\* getStatus(id): this.jobs.get(id).
PQ_getStatus(id) == IF id \in PQ_ids THEN pqJobs[id] ELSE PQ_notFound

\* getMetrics().totalJobs: this.jobs.size.
PQ_totalJobs == Cardinality(PQ_ids)

\* The jobs of the table whose status is st.
PQ_withStatus(st) == {id \in PQ_ids : pqJobs[id].status = st}

\* getMetrics()
PQ_getMetrics ==
    [queued    |-> Len(pqQueue),
     totalJobs |-> PQ_totalJobs,
     printing  |-> Cardinality(PQ_withStatus("printing")),
     errors    |-> Cardinality(PQ_withStatus("error"))]

\* enqueue(job): jobs.set, queue.push, tick(); returns the id.  The id is
\* `print-<Date.now()>-<six random base-36 digits>`; ids are taken to be
\* distinct and are numbered in the order of the enqueue calls.
PQ_enqueue(job) ==
    /\ PQ_microtasksIdle
    /\ Cardinality(PQ_ids) < MaxPrintJobs
    /\ LET id == Cardinality(PQ_ids) + 1 IN
       PQ_tick(id, Append(pqQueue, id),
               pqJobs @@ (id :> PrintJobState(id, job)),
               pqHist @@ (id :> [printings |-> 0, dispatches |-> 0]))
    /\ UNCHANGED queueRetries

\* Mutant: a missing file is handled like a failed dispatch (it consumes a
\* retry).
PQ_processJobAccess_retry(d, exists) ==
    /\ PQ_microtasksIdle
    /\ d \in pqDrains /\ d.pc = "access"
    /\ IF exists
       THEN /\ pqDrains' = (pqDrains \ {d}) \cup {[d EXCEPT !.pc = "dispatch"]}
            /\ pqHist' = [pqHist EXCEPT ![d.job].dispatches = @ + 1]
            /\ UNCHANGED <<pqJobs, pqQueue>>
       ELSE /\ pqJobs' = [pqJobs EXCEPT
                             ![d.job].attempts = @ + 1,
                             ![d.job].error = "File not found",
                             ![d.job].status =
                                IF PQ_mayRetry(pqJobs[d.job].attempts + 1)
                                THEN "queued" ELSE "error"]
            /\ pqQueue' = IF PQ_mayRetry(pqJobs[d.job].attempts + 1)
                          THEN Append(pqQueue, d.job) ELSE pqQueue
            /\ pqDrains' = (pqDrains \ {d}) \cup {[d EXCEPT !.pc = "loop"]}
            /\ UNCHANGED pqHist
    /\ UNCHANGED <<queueRetries, processing>>

\* Mutant: a job with a missing file is marked error and pushed back.
PQ_processJobAccess_requeue(d, exists) ==
    /\ PQ_microtasksIdle
    /\ d \in pqDrains /\ d.pc = "access"
    /\ IF exists
       THEN /\ pqDrains' = (pqDrains \ {d}) \cup {[d EXCEPT !.pc = "dispatch"]}
            /\ pqHist' = [pqHist EXCEPT ![d.job].dispatches = @ + 1]
            /\ UNCHANGED <<pqJobs, pqQueue>>
       ELSE /\ pqJobs' = [pqJobs EXCEPT ![d.job].status = "error",
                                        ![d.job].error = "File not found"]
            /\ pqQueue' = Append(pqQueue, d.job)
            /\ pqDrains' = (pqDrains \ {d}) \cup {[d EXCEPT !.pc = "loop"]}
            /\ UNCHANGED pqHist
    /\ UNCHANGED <<queueRetries, processing>>

\* Mutant: a missing file fails every job of the table.
PQ_processJobAccess_failAll(d, exists) ==
    /\ PQ_microtasksIdle
    /\ d \in pqDrains /\ d.pc = "access"
    /\ IF exists
       THEN /\ pqDrains' = (pqDrains \ {d}) \cup {[d EXCEPT !.pc = "dispatch"]}
            /\ pqHist' = [pqHist EXCEPT ![d.job].dispatches = @ + 1]
            /\ UNCHANGED pqJobs
       ELSE /\ pqJobs' = [i \in PQ_ids |->
                             [pqJobs[i] EXCEPT
                                 !.status = IF i = d.job THEN "error" ELSE @,
                                 !.error = "File not found"]]
            /\ pqDrains' = (pqDrains \ {d}) \cup {[d EXCEPT !.pc = "loop"]}
            /\ UNCHANGED pqHist
    /\ UNCHANGED <<queueRetries, pqQueue, processing>>

\* processJob(): `await access(job.filePath)` returns.  A missing file ends
\* the job in error; otherwise the print command is spawned.
PQ_processJobAccess(d, exists) ==
    /\ PQ_microtasksIdle
    /\ d \in pqDrains /\ d.pc = "access"
    /\ IF exists
       THEN /\ pqDrains' = (pqDrains \ {d}) \cup {[d EXCEPT !.pc = "dispatch"]}
            /\ pqHist' = [pqHist EXCEPT ![d.job].dispatches = @ + 1]
            /\ UNCHANGED pqJobs
       ELSE /\ pqJobs' = [pqJobs EXCEPT ![d.job].status = "error",
                                        ![d.job].error = "File not found"]
            /\ pqDrains' = (pqDrains \ {d}) \cup {[d EXCEPT !.pc = "loop"]}
            /\ UNCHANGED pqHist
    /\ UNCHANGED <<queueRetries, pqQueue, processing>>

\* Mutant: a failed job is put back at the head (unshift for push).
PQ_processJobDispatch_unshift(d, outcome) ==
    /\ PQ_microtasksIdle
    /\ d \in pqDrains /\ d.pc = "dispatch"
    /\ LET job == pqJobs[d.job]
           attempts == job.attempts + 1
       IN IF PQ_spawnResolves(outcome)
          THEN /\ pqJobs' = [pqJobs EXCEPT ![d.job].status = "completed",
                                           ![d.job].error = "none"]
               /\ UNCHANGED pqQueue
          ELSE IF PQ_mayRetry(attempts)
          THEN /\ pqJobs' = [pqJobs EXCEPT ![d.job].attempts = attempts,
                                 ![d.job].error = PQ_spawnMessage(outcome),
                                 ![d.job].status = "queued"]
               /\ pqQueue' = <<d.job>> \o pqQueue
          ELSE /\ pqJobs' = [pqJobs EXCEPT ![d.job].attempts = attempts,
                                 ![d.job].error = PQ_spawnMessage(outcome),
                                 ![d.job].status = "error"]
               /\ UNCHANGED pqQueue
    /\ pqDrains' = (pqDrains \ {d}) \cup
          {[d EXCEPT !.pc = "loop", !.spawn = outcome]}
    /\ UNCHANGED <<queueRetries, processing, pqHist>>

\* Mutant: a successful dispatch leaves the message of the last failure.
PQ_processJobDispatch_keepError(d, outcome) ==
    /\ PQ_microtasksIdle
    /\ d \in pqDrains /\ d.pc = "dispatch"
    /\ LET job == pqJobs[d.job]
           attempts == job.attempts + 1
       IN IF PQ_spawnResolves(outcome)
          THEN /\ pqJobs' = [pqJobs EXCEPT ![d.job].status = "completed"]
               /\ UNCHANGED pqQueue
          ELSE IF PQ_mayRetry(attempts)
          THEN /\ pqJobs' = [pqJobs EXCEPT ![d.job].attempts = attempts,
                                 ![d.job].error = PQ_spawnMessage(outcome),
                                 ![d.job].status = "queued"]
               /\ pqQueue' = Append(pqQueue, d.job)
          ELSE /\ pqJobs' = [pqJobs EXCEPT ![d.job].attempts = attempts,
                                 ![d.job].error = PQ_spawnMessage(outcome),
                                 ![d.job].status = "error"]
               /\ UNCHANGED pqQueue
    /\ pqDrains' = (pqDrains \ {d}) \cup
          {[d EXCEPT !.pc = "loop", !.spawn = outcome]}
    /\ UNCHANGED <<queueRetries, processing, pqHist>>

\* processJob(): the print command ends.
PQ_processJobDispatch(d, outcome) ==
    /\ PQ_microtasksIdle
    /\ d \in pqDrains /\ d.pc = "dispatch"
    /\ LET job == pqJobs[d.job]
           attempts == job.attempts + 1
       IN IF PQ_spawnResolves(outcome)
          THEN /\ pqJobs' = [pqJobs EXCEPT ![d.job].status = "completed",
                                           ![d.job].error = "none"]
               /\ UNCHANGED pqQueue
          ELSE IF PQ_mayRetry(attempts)
          THEN /\ pqJobs' = [pqJobs EXCEPT ![d.job].attempts = attempts,
                                 ![d.job].error = PQ_spawnMessage(outcome),
                                 ![d.job].status = "queued"]
               /\ pqQueue' = Append(pqQueue, d.job)
          ELSE /\ pqJobs' = [pqJobs EXCEPT ![d.job].attempts = attempts,
                                 ![d.job].error = PQ_spawnMessage(outcome),
                                 ![d.job].status = "error"]
               /\ UNCHANGED pqQueue
    /\ pqDrains' = (pqDrains \ {d}) \cup
          {[d EXCEPT !.pc = "loop", !.spawn = outcome]}
    /\ UNCHANGED <<queueRetries, processing, pqHist>>

\* Mutant: the drain handles one job and returns (`if` for `while`).
PQ_tickResume_exit(d) ==
    /\ d \in pqDrains /\ d.pc = "loop"
    /\ pqDrains' = pqDrains \ {d}
    /\ processing' = FALSE
    /\ UNCHANGED <<queueRetries, pqQueue, pqJobs, pqHist>>

\* Mutant: the drain drops a finished job from the table.
PQ_tickResume_evict(d) ==
    /\ d \in pqDrains /\ d.pc = "loop"
    /\ LET kept == IF pqJobs[d.job].status \in {"completed", "error"}
                   THEN PQ_ids \ {d.job} ELSE PQ_ids
       IN PQ_while(d.id, pqQueue, [i \in kept |-> pqJobs[i]],
                   [i \in kept |-> pqHist[i]], pqDrains \ {d})
    /\ UNCHANGED queueRetries

\* tick(): the continuation of `await this.processJob(job)`: back to the
\* loop head.
PQ_tickResume(d) ==
    /\ d \in pqDrains /\ d.pc = "loop"
    /\ PQ_while(d.id, pqQueue, pqJobs, pqHist, pqDrains \ {d})
    /\ UNCHANGED queueRetries

PQInit ==
    /\ queueRetries \in 0..MaxRetries
    /\ pqQueue = <<>>
    /\ pqJobs = <<>>
    /\ processing = FALSE
    /\ pqDrains = {}
    /\ pqHist = <<>>

\* ---------------------------------------------------------- CameraService

Clients == 1..MaxClients

\* A request handed to the driver: getLiveFrame() from the interval callback
\* ("tick") or from getLatestFrame ("latest"), or capture().  n is the order
\* in which the driver received it; the frame it returns carries n (the
\* mock driver numbers its frames when the call starts).
DriverCall(op, n) == [op |-> op, n |-> n]

\* How a driver request ended: ok is FALSE when the driver raised; to is the
\* set of listeners that were called with the frame.
DriverReturn(call, ok, to) == [op |-> call.op, n |-> call.n, ok |-> ok, to |-> to]

\* The driver is asked for a frame or a still.
Cam_driverCall(op) ==
    /\ camCalls < MaxDriverCalls
    /\ camCalls' = camCalls + 1
    /\ camInflight' = camInflight \cup {DriverCall(op, camCalls + 1)}

\* Set.add and Set.delete on the listener set.
Cam_added(cs, cb) == IF cb \in Range(cs) THEN cs ELSE Append(cs, cb)

Cam_deleted(cs, cb) == SelectSeq(cs, LAMBDA x : x # cb)

\* startLiveView(): the timers after `if (this.liveInterval) return` or
\* `this.liveInterval = setInterval(...)`.
Cam_setInterval == IF liveInterval THEN camTimers ELSE camTimers + 1

\* stopLiveView(): the timers after `if (this.liveInterval)
\* clearInterval(this.liveInterval)`.
Cam_clearInterval == IF liveInterval THEN camTimers - 1 ELSE camTimers

\* Mutant: startLiveView sets a timer whether or not one exists.
Cam_startLiveView_unguarded ==
    /\ liveInterval' = TRUE
    /\ camTimers' = camTimers + 1
    /\ liveViewEnabled' = TRUE
    /\ UNCHANGED <<liveViewClients, latestFrame, lastCapture, camInflight,
                   camCalls, camLast>>

\* startLiveView(): setInterval unless a timer exists; liveViewEnabled = true.
Cam_startLiveView ==
    /\ liveInterval' = TRUE
    /\ camTimers' = Cam_setInterval
    /\ liveViewEnabled' = TRUE
    /\ UNCHANGED <<liveViewClients, latestFrame, lastCapture, camInflight,
                   camCalls, camLast>>

\* stopLiveView(): clearInterval; liveViewEnabled = false.
Cam_stopLiveView ==
    /\ liveInterval' = FALSE
    /\ camTimers' = Cam_clearInterval
    /\ liveViewEnabled' = FALSE
    /\ UNCHANGED <<liveViewClients, latestFrame, lastCapture, camInflight,
                   camCalls, camLast>>

\* registerLiveViewClient(cb)
Cam_registerLiveViewClient(cb) ==
    /\ liveViewClients' = Cam_added(liveViewClients, cb)
    /\ UNCHANGED <<liveInterval, camTimers, liveViewEnabled, latestFrame, lastCapture,
                   camInflight, camCalls, camLast>>

\* unregisterLiveViewClient(cb)
Cam_unregisterLiveViewClient(cb) ==
    /\ liveViewClients' = Cam_deleted(liveViewClients, cb)
    /\ UNCHANGED <<liveInterval, camTimers, liveViewEnabled, latestFrame, lastCapture,
                   camInflight, camCalls, camLast>>

\* The interval callback fires: `await this.driver.getLiveFrame()` starts.
Cam_tick ==
    /\ camTimers > 0
    /\ Cam_driverCall("tick")
    /\ UNCHANGED <<liveInterval, camTimers, liveViewEnabled, liveViewClients, latestFrame,
                   lastCapture, camLast>>

\* `for (const cb of this.liveViewClients) cb(frame)` inside the try: the
\* listeners called, in insertion order, when listener `thrower` raises (0:
\* none does).  The loop ends at the first listener that raises.
Cam_called(cs, thrower) ==
    IF \E k \in 1..Len(cs) : cs[k] = thrower
    THEN LET k == CHOOSE i \in 1..Len(cs) : cs[i] = thrower
         IN {cs[i] : i \in 1..k}
    ELSE Range(cs)

\* Mutant: a failed fetch stops live view.
Cam_tickDone_breaker(call, ok, thrower) ==
    /\ call \in camInflight /\ call.op = "tick"
    /\ camInflight' = camInflight \ {call}
    /\ latestFrame' = IF ok THEN call.n ELSE latestFrame
    /\ camLast' = DriverReturn(call, ok,
                    IF ok THEN Cam_called(liveViewClients, thrower) ELSE {})
    /\ liveInterval' = (ok /\ liveInterval)
    /\ camTimers' = IF ok THEN camTimers ELSE Cam_clearInterval
    /\ liveViewEnabled' = (ok /\ liveViewEnabled)
    /\ UNCHANGED <<liveViewClients, lastCapture, camCalls>>

\* The interval callback resumes: the frame is cached and pushed to the
\* listeners, or the error (of the driver, or of a listener) is logged.
Cam_tickDone(call, ok, thrower) ==
    /\ call \in camInflight /\ call.op = "tick"
    /\ camInflight' = camInflight \ {call}
    /\ latestFrame' = IF ok THEN call.n ELSE latestFrame
    /\ camLast' = DriverReturn(call, ok,
                    IF ok THEN Cam_called(liveViewClients, thrower) ELSE {})
    /\ UNCHANGED <<liveInterval, camTimers, liveViewEnabled, liveViewClients, lastCapture,
                   camCalls>>

\* getLatestFrame() returning the cached frame: no driver request.
Cam_cacheHit == [op |-> "cached", n |-> latestFrame, ok |-> TRUE, to |-> {}]

\* What a getLatestFrame call that ended as r gave its caller (0: undefined).
Cam_getLatestFrameValue(r) == IF r.ok THEN r.n ELSE 0

\* A failed driver request reaches the caller as an error only from
\* capture(), which has no try/catch; getLatestFrame and the interval
\* callback catch and log it.
Cam_raises(r) == ~r.ok /\ r.op = "capture"

\* Mutant: getLatestFrame asks the driver even when a frame is cached.
Cam_getLatestFrame_alwaysFetch ==
    /\ Cam_driverCall("latest")
    /\ UNCHANGED <<liveInterval, camTimers, liveViewEnabled, liveViewClients, latestFrame,
                   lastCapture, camLast>>

\* getLatestFrame(): the cached frame if there is one, else a driver fetch.
Cam_getLatestFrame ==
    /\ IF latestFrame # 0
       THEN camLast' = Cam_cacheHit /\ UNCHANGED <<camInflight, camCalls>>
       ELSE Cam_driverCall("latest") /\ UNCHANGED camLast
    /\ UNCHANGED <<liveInterval, camTimers, liveViewEnabled, liveViewClients, latestFrame,
                   lastCapture>>

\* getLatestFrame() resumes after its fetch.
Cam_getLatestFrameDone(call, ok) ==
    /\ call \in camInflight /\ call.op = "latest"
    /\ camInflight' = camInflight \ {call}
    /\ latestFrame' = IF ok THEN call.n ELSE latestFrame
    /\ camLast' = DriverReturn(call, ok, {})
    /\ UNCHANGED <<liveInterval, camTimers, liveViewEnabled, liveViewClients, lastCapture,
                   camCalls>>

\* capture(): `await this.driver.capture()` starts.
Cam_capture ==
    /\ Cam_driverCall("capture")
    /\ UNCHANGED <<liveInterval, camTimers, liveViewEnabled, liveViewClients, latestFrame,
                   lastCapture, camLast>>

\* Mutant: a failed capture drops the cached frame.
Cam_captureDone_dropOnFail(call, ok) ==
    /\ call \in camInflight /\ call.op = "capture"
    /\ camInflight' = camInflight \ {call}
    /\ latestFrame' = IF ok THEN call.n ELSE 0
    /\ lastCapture' = IF ok THEN call.n ELSE lastCapture
    /\ camLast' = DriverReturn(call, ok, {})
    /\ UNCHANGED <<liveInterval, camTimers, liveViewEnabled, liveViewClients,
                   camCalls>>

\* getStatus(): the fields the service adds to the driver's status.
Cam_getStatus == [liveView |-> liveViewEnabled, lastCapture |-> lastCapture]

\* capture() resumes: latestFrame and lastCapture are set, or the error
\* propagates to the caller.
Cam_captureDone(call, ok) ==
    /\ call \in camInflight /\ call.op = "capture"
    /\ camInflight' = camInflight \ {call}
    /\ latestFrame' = IF ok THEN call.n ELSE latestFrame
    /\ lastCapture' = IF ok THEN call.n ELSE lastCapture
    /\ camLast' = DriverReturn(call, ok, {})
    /\ UNCHANGED <<liveInterval, camTimers, liveViewEnabled, liveViewClients, camCalls>>

CamInit ==
    /\ liveInterval = FALSE
    /\ camTimers = 0
    /\ liveViewEnabled = FALSE
    /\ liveViewClients = <<>>
    /\ latestFrame = 0
    /\ lastCapture = 0
    /\ camInflight = {}
    /\ camCalls = 0
    /\ camLast = [op |-> "none", n |-> 0, ok |-> FALSE, to |-> {}]

\* ------------------------------------------- CameraService.initialize

\* selectDriver(): the hardware driver is tried on win32 unless
\* LOOQA_FORCE_MOCK_CAMERA is set.
Cam_triesCanon == boot.win32 /\ ~boot.forceMock

\* initialize() -> selectDriver() up to its first await: `new
\* CanonEdsdkDriver` (which throws when the native module is absent or
\* cannot be loaded) and canon.init(), or `new MockCameraDriver` and
\* mock.init().
Cam_selectDriver(canonLoads) ==
    /\ boot.pc = "start"
    /\ IF ~Cam_triesCanon
       THEN boot' = [boot EXCEPT !.pc = "mockInit"]
       ELSE IF canonLoads
       THEN boot' = [boot EXCEPT !.pc = "canonInit", !.canonNew = "ok"]
       ELSE boot' = [boot EXCEPT !.pc = "mockInit", !.canonNew = "failed"]
    /\ UNCHANGED driver

\* Mutant: the Canon driver is kept although its init failed.
Cam_canonInitDone_keep(ok) ==
    /\ boot.pc = "canonInit"
    /\ driver' = "canon"
    /\ boot' = [boot EXCEPT !.pc = "ready",
                            !.canonInit = IF ok THEN "ok" ELSE "failed"]

\* `await canon.init()` returns (the driver becomes this.driver) or raises
\* (the catch logs and selectDriver goes on to the mock driver).
Cam_canonInitDone(ok) ==
    /\ boot.pc = "canonInit"
    /\ IF ok
       THEN /\ driver' = "canon"
            /\ boot' = [boot EXCEPT !.pc = "ready", !.canonInit = "ok"]
       ELSE /\ driver' = driver
            /\ boot' = [boot EXCEPT !.pc = "mockInit", !.canonInit = "failed"]

\* `await mock.init()` returns (the driver becomes this.driver) or raises
\* (initialize() rejects and bootstrap goes no further).
Cam_mockInitDone(ok) ==
    /\ boot.pc = "mockInit"
    /\ IF ok
       THEN /\ driver' = "mock"
            /\ boot' = [boot EXCEPT !.pc = "ready", !.mockInit = "ok"]
       ELSE /\ driver' = driver
            /\ boot' = [boot EXCEPT !.pc = "failed", !.mockInit = "failed"]

\* CameraService as constructed, on any platform, with or without the flag.
DrvInit ==
    /\ driver = "none"
    /\ boot \in [win32 : BOOLEAN, forceMock : BOOLEAN, pc : {"start"},
                 canonNew : {"none"}, canonInit : {"none"},
                 mockInit : {"none"}]

\* bootstrap has awaited camera.initialize() (here: off win32, mock driver).
DrvReady ==
    /\ driver = "mock"
    /\ boot = [win32 |-> FALSE, forceMock |-> FALSE, pc |-> "ready",
               canonNew |-> "none", canonInit |-> "none", mockInit |-> "ok"]

\* --------------------------------------------------------- backend server

\* Mutant: the connection handler registers the listener and does not start
\* live view.
WS_connection_noStart(socket) ==
    /\ socket \notin wssClients
    /\ wssClients' = wssClients \cup {socket}
    /\ liveViewClients' = Cam_added(liveViewClients, socket)
    /\ liveQuiet' = FALSE
    /\ UNCHANGED <<liveInterval, camTimers, liveViewEnabled, liveStopped>>
    /\ UNCHANGED <<latestFrame, lastCapture, camInflight, camCalls, camLast,
                   apiResume>>

\* wss.on('connection'): the socket is in wss.clients; its pushFrame listener
\* is registered and startLiveView() is called (its body has no await, so the
\* timer is set in the same callback).
WS_connection(socket) ==
    /\ socket \notin wssClients
    /\ wssClients' = wssClients \cup {socket}
    /\ liveViewClients' = Cam_added(liveViewClients, socket)
    /\ liveInterval' = TRUE
    /\ camTimers' = Cam_setInterval
    /\ liveViewEnabled' = TRUE
    /\ liveQuiet' = FALSE
    /\ liveStopped' = FALSE
    /\ UNCHANGED <<latestFrame, lastCapture, camInflight, camCalls, camLast,
                   apiResume>>

\* socket.once('close'): the socket has left wss.clients; its listener is
\* unregistered and, when no socket is left, stopLiveView() is called.
WS_close(socket) ==
    /\ socket \in wssClients
    /\ wssClients' = wssClients \ {socket}
    /\ liveViewClients' = Cam_deleted(liveViewClients, socket)
    /\ IF wssClients' = {}
       THEN liveInterval' = FALSE /\ liveViewEnabled' = FALSE /\
            camTimers' = Cam_clearInterval
       ELSE UNCHANGED <<liveInterval, camTimers, liveViewEnabled>>
    /\ liveQuiet' = IF liveViewClients' = <<>> THEN TRUE ELSE liveQuiet
    /\ UNCHANGED <<latestFrame, lastCapture, camInflight, camCalls, camLast,
                   apiResume, liveStopped>>

\* POST /capture: `await camera.capture()` starts.
Api_capture(resumeLive) ==
    /\ Cam_capture
    /\ apiResume' = IF resumeLive THEN apiResume \cup {camCalls + 1}
                                  ELSE apiResume
    /\ liveQuiet' = FALSE
    /\ UNCHANGED <<wssClients, liveStopped>>

\* POST /capture resumes: after a successful capture startLiveView() is
\* called if the request had resumeLive; a failed capture goes to next(error).
Api_captureDone(call, ok) ==
    /\ call \in camInflight /\ call.op = "capture"
    /\ camInflight' = camInflight \ {call}
    /\ latestFrame' = IF ok THEN call.n ELSE latestFrame
    /\ lastCapture' = IF ok THEN call.n ELSE lastCapture
    /\ camLast' = DriverReturn(call, ok, {})
    /\ apiResume' = apiResume \ {call.n}
    /\ IF ok /\ call.n \in apiResume
       THEN liveInterval' = TRUE /\ liveViewEnabled' = TRUE /\
            camTimers' = Cam_setInterval /\ liveStopped' = FALSE
       ELSE UNCHANGED <<liveInterval, camTimers, liveViewEnabled, liveStopped>>
    /\ UNCHANGED <<liveViewClients, camCalls, wssClients, liveQuiet>>

\* GET /live: camera.getLatestFrame().
Api_live == Cam_getLatestFrame /\ UNCHANGED srvVars

Api_liveDone(call, ok) == Cam_getLatestFrameDone(call, ok) /\ UNCHANGED srvVars

\* The interval callback under the server: every listener is a pushFrame,
\* which sends only on an open socket and does not raise.
Srv_tick == Cam_tick /\ UNCHANGED srvVars

Srv_tickDone(call, ok) == Cam_tickDone(call, ok, 0) /\ UNCHANGED srvVars

\* gracefulShutdown (SIGINT, SIGTERM): stopLiveView() first.
Srv_gracefulShutdown ==
    /\ liveInterval' = FALSE
    /\ camTimers' = Cam_clearInterval
    /\ liveViewEnabled' = FALSE
    /\ liveStopped' = TRUE
    /\ UNCHANGED <<liveViewClients, latestFrame, lastCapture, camInflight,
                   camCalls, camLast, wssClients, apiResume, liveQuiet>>

SrvInit ==
    /\ wssClients = {}
    /\ apiResume = {}
    /\ liveQuiet = FALSE
    /\ liveStopped = FALSE

\* ---------------------------------------------------------- specifications

NextAI ==
    \/ \E hasSource \in BOOLEAN :
          AI_enqueue(hasSource) /\ UNCHANGED notAI
    \/ \E r \in aiRunning, ok \in BOOLEAN :
          AI_generateDone(r, ok) /\ UNCHANGED notAI
    \/ \E r \in aiRunning : AI_runJobSettle(r) /\ UNCHANGED notAI
    \/ \E r \in aiRunning : AI_finally(r) /\ UNCHANGED notAI
    \/ AI_immediate /\ UNCHANGED notAI

NextPQ ==
    \/ \E job \in {PlainJob} : PQ_enqueue(job) /\ UNCHANGED notPQ
    \/ \E d \in pqDrains, exists \in BOOLEAN :
          PQ_processJobAccess(d, exists) /\ UNCHANGED notPQ
    \/ \E d \in pqDrains, outcome \in SpawnOutcomes :
          PQ_processJobDispatch(d, outcome) /\ UNCHANGED notPQ
    \/ \E d \in pqDrains : PQ_tickResume(d) /\ UNCHANGED notPQ

\* The printer queue with jobs that differ in copies and printer.
NextPQFrame ==
    \/ \E job \in PrintJobs : PQ_enqueue(job) /\ UNCHANGED notPQ
    \/ \E d \in pqDrains, exists \in BOOLEAN :
          PQ_processJobAccess(d, exists) /\ UNCHANGED notPQ
    \/ \E d \in pqDrains, outcome \in SpawnOutcomes :
          PQ_processJobDispatch(d, outcome) /\ UNCHANGED notPQ
    \/ \E d \in pqDrains : PQ_tickResume(d) /\ UNCHANGED notPQ

NextCam ==
    \/ Cam_startLiveView /\ UNCHANGED notCam
    \/ Cam_stopLiveView /\ UNCHANGED notCam
    \/ \E cb \in Clients :
          Cam_registerLiveViewClient(cb) /\ UNCHANGED notCam
    \/ \E cb \in Clients :
          Cam_unregisterLiveViewClient(cb) /\ UNCHANGED notCam
    \/ Cam_tick /\ UNCHANGED notCam
    \/ \E call \in camInflight, ok \in BOOLEAN,
          thrower \in Range(liveViewClients) \cup {0} :
          Cam_tickDone(call, ok, thrower)
            /\ UNCHANGED notCam
    \/ Cam_getLatestFrame /\ UNCHANGED notCam
    \/ \E call \in camInflight, ok \in BOOLEAN :
          Cam_getLatestFrameDone(call, ok) /\ UNCHANGED notCam
    \/ Cam_capture /\ UNCHANGED notCam
    \/ \E call \in camInflight, ok \in BOOLEAN :
          Cam_captureDone(call, ok) /\ UNCHANGED notCam

NextLive ==
    \/ \E socket \in Clients :
          WS_connection(socket) /\ UNCHANGED notLive
    \/ \E socket \in Clients : WS_close(socket) /\ UNCHANGED notLive
    \/ \E resumeLive \in BOOLEAN :
          Api_capture(resumeLive) /\ UNCHANGED notLive
    \/ \E call \in camInflight, ok \in BOOLEAN :
          Api_captureDone(call, ok) /\ UNCHANGED notLive
    \/ Api_live /\ UNCHANGED notLive
    \/ \E call \in camInflight, ok \in BOOLEAN :
          Api_liveDone(call, ok) /\ UNCHANGED notLive
    \/ Srv_tick /\ UNCHANGED notLive
    \/ \E call \in camInflight, ok \in BOOLEAN :
          Srv_tickDone(call, ok) /\ UNCHANGED notLive
    \/ Srv_gracefulShutdown /\ UNCHANGED notLive

NextBoot ==
    \/ \E canonLoads \in BOOLEAN :
          Cam_selectDriver(canonLoads) /\ UNCHANGED notBoot
    \/ \E ok \in BOOLEAN : Cam_canonInitDone(ok) /\ UNCHANGED notBoot
    \/ \E ok \in BOOLEAN : Cam_mockInitDone(ok) /\ UNCHANGED notBoot
    \/ boot.pc = "ready" /\ Cam_startLiveView /\ UNCHANGED notCam
    \/ boot.pc = "ready" /\ Cam_tick /\ UNCHANGED notCam
    \/ \E call \in camInflight, ok \in BOOLEAN :
          Cam_tickDone(call, ok, 0) /\ UNCHANGED notCam
    \/ boot.pc = "ready" /\ Cam_getLatestFrame /\ UNCHANGED notCam
    \/ \E call \in camInflight, ok \in BOOLEAN :
          Cam_getLatestFrameDone(call, ok) /\ UNCHANGED notCam
    \/ boot.pc = "ready" /\ Cam_capture /\ UNCHANGED notCam
    \/ \E call \in camInflight, ok \in BOOLEAN :
          Cam_captureDone(call, ok) /\ UNCHANGED notCam

NextGen == \E ok \in BOOLEAN : Gen_generate(ok) /\ UNCHANGED notGen

NextLegacy ==
    \/ \E variations \in LgVariations :
          Lg_enqueue(variations) /\ UNCHANGED notLegacy
    \/ Lg_timeout /\ UNCHANGED notLegacy

\* A component that a specification does not exercise stays as constructed,
\* with its configuration pinned.
AIParked == AIInit /\ maxParallelJobs = 1
PQParked == PQInit /\ queueRetries = 0

Init ==
    AIInit /\ PQInit /\ CamInit /\ SrvInit /\ DrvInit /\ GenInit /\ LgInit

Next ==
    NextAI \/ NextPQFrame \/ NextCam \/ NextLive \/ NextBoot \/ NextGen
        \/ NextLegacy

Spec == Init /\ [][Next]_vars

\* The three services share no state: each is also checked on its own, the
\* other two left as constructed.
InitAI == AIInit /\ PQParked /\ CamInit /\ SrvInit /\ DrvReady /\ GenParked
    /\ LgParked

InitPQ == AIParked /\ PQInit /\ CamInit /\ SrvInit /\ DrvReady /\ GenParked
    /\ LgParked

InitCam ==
    AIParked /\ PQParked /\ CamInit /\ SrvInit /\ DrvReady /\ GenParked
    /\ LgParked

\* CameraService under the backend's handlers, its only caller.
InitLive ==
    AIParked /\ PQParked /\ CamInit /\ SrvInit /\ DrvReady /\ GenParked
    /\ LgParked

\* CameraService from its construction: initialize(), then the operations
\* that call the driver.
InitBoot ==
    AIParked /\ PQParked /\ CamInit /\ SrvInit /\ DrvInit /\ GenParked
    /\ LgParked

\* generate() on one request.
InitGen ==
    AIParked /\ PQParked /\ CamInit /\ SrvInit /\ DrvReady /\ GenInit
    /\ LgParked

\* The legacy AIProcessor on its own.
InitLegacy ==
    AIParked /\ PQParked /\ CamInit /\ SrvInit /\ DrvReady /\ GenParked
    /\ LgInit

SpecAI == InitAI /\ [][NextAI]_vars

SpecPQ == InitPQ /\ [][NextPQ]_vars

SpecCam == InitCam /\ [][NextCam]_vars

SpecLive == InitLive /\ [][NextLive]_vars

SpecBoot == InitBoot /\ [][NextBoot]_vars

SpecGen == InitGen /\ [][NextGen]_vars

SpecLegacy == InitLegacy /\ [][NextLegacy]_vars

\* Every timer that was set fires; nothing obliges a client to call enqueue.
LgProgress == Lg_timeout /\ UNCHANGED notLegacy

SpecLegacyLive == SpecLegacy /\ WF_vars(LgProgress)

\* The event loop runs every pending continuation, every setImmediate
\* callback and every I/O completion of an admitted job; nothing obliges a
\* client to call enqueue.
AIProgress ==
    \/ \E r \in aiRunning, ok \in BOOLEAN :
          AI_generateDone(r, ok) /\ UNCHANGED notAI
    \/ \E r \in aiRunning : AI_runJobSettle(r) /\ UNCHANGED notAI
    \/ \E r \in aiRunning : AI_finally(r) /\ UNCHANGED notAI
    \/ AI_immediate /\ UNCHANGED notAI

SpecAILive == SpecAI /\ WF_vars(AIProgress)

\* Every file check and every print command eventually returns, and the
\* event loop runs the drain loop's continuation.
PQProgress ==
    \/ \E d \in pqDrains, exists \in BOOLEAN :
          PQ_processJobAccess(d, exists) /\ UNCHANGED notPQ
    \/ \E d \in pqDrains, outcome \in SpawnOutcomes :
          PQ_processJobDispatch(d, outcome) /\ UNCHANGED notPQ
    \/ \E d \in pqDrains : PQ_tickResume(d) /\ UNCHANGED notPQ

\* The liveness of the printer queue is checked for retry limits up to
\* MaxLiveRetries.
InitPQLive ==
    /\ AIParked /\ PQInit /\ queueRetries <= MaxLiveRetries /\ CamInit
    /\ SrvInit /\ DrvReady /\ GenParked
    /\ LgParked

SpecPQLive == InitPQLive /\ [][NextPQ]_vars /\ WF_vars(PQProgress)

\* Jobs that differ in copies and printer, for retry limits up to
\* MaxLiveRetries.
InitPQFrame ==
    /\ AIParked /\ PQInit /\ queueRetries <= MaxLiveRetries /\ CamInit
    /\ SrvInit /\ DrvReady /\ GenParked
    /\ LgParked

SpecPQFrame == InitPQFrame /\ [][NextPQFrame]_vars

\* ------------------------------------------------------------ properties

AI_waiting == {aiQueue[i].caller : i \in DOMAIN aiQueue}
AI_active == {r.job.caller : r \in aiRunning}
AI_settled(c) == aiPromise[c].state \in {"resolved", "rejected"}

\* C1: whatever maxParallelJobs = N >= 1 is configured and however enqueue
\* calls, completions and failures interleave, at most N jobs are active and
\* the activeJobs counter stays within 0..N.
C1_ActiveNeverExceedsLimit ==
    /\ activeJobs >= 0
    /\ activeJobs <= maxParallelJobs
    /\ Cardinality(aiRunning) <= maxParallelJobs

\* C1 witness: more requests than slots were submitted; both slots of a
\* two-slot queue are taken and a request waits.
C1_Witness ==
    /\ maxParallelJobs = 2
    /\ activeJobs = 2
    /\ Cardinality(aiRunning) = 2
    /\ Len(aiQueue) >= 1

\* C2 (as claimed): the driver never has two frame/capture requests in
\* flight at the same time.
C2_DriverCallsSerialized == Cardinality(camInflight) <= 1

\* C3: at most one job has status printing and at most one dispatch is in
\* flight (indeed at most one drain loop exists), however enqueue calls
\* interleave with the file check and the dispatch.
C3_OnePrinting ==
    /\ Cardinality({id \in PQ_ids : pqJobs[id].status = "printing"}) <= 1
    /\ Cardinality({d \in pqDrains : d.pc = "dispatch"}) <= 1
    /\ Cardinality(pqDrains) <= 1

\* C3 witness: a dispatch is in flight while enqueue calls have left two
\* more jobs in the pending queue.
C3_Witness ==
    /\ \E d \in pqDrains : d.pc = "dispatch"
    /\ Len(pqQueue) >= 2

\* C4: the promise of every enqueue call is settled at most once, by a
\* single resolve or reject call, with the result or the error of its own
\* request; it is settled exactly once by the time its job has left the
\* queue and the active set, and not before its job's work has returned.
C4_NotifiedExactlyOnce ==
    \A c \in Callers :
      LET p == aiPromise[c] IN
      /\ p.calls <= 1
      /\ c > aiEnqueued => p.state = "none"
      /\ c <= aiEnqueued => p.state # "none"
      /\ p.state = "resolved" => p.value = [kind |-> "result", of |-> c]
      /\ p.state = "rejected" =>
            /\ p.value.of = c
            /\ p.value.kind \in {"InvalidRequest", "GenerationFailed"}
      /\ AI_settled(c) <=> p.calls = 1
      /\ (c <= aiEnqueued /\ c \notin AI_waiting /\ c \notin AI_active)
            => AI_settled(c)
      /\ (c \in AI_waiting \/ \E r \in aiRunning :
              r.job.caller = c /\ r.phase \in {"running", "returned"})
            => p.state = "pending"

\* C4 witness: of two finished requests one was resolved and the other
\* rejected, each with its own value.
C4_Witness ==
    \E c1, c2 \in Callers :
      /\ aiPromise[c1].state = "resolved"
      /\ aiPromise[c2].state = "rejected"
      /\ c1 \notin AI_active /\ c2 \notin AI_active

\* C5: if every admitted job's work eventually finishes, every enqueued
\* request is eventually admitted and its promise eventually settles; an
\* admitted job leaves the active set only through its own .finally, after
\* its caller was notified.
C5_EveryRequestSettles ==
    /\ \A c \in Callers : (c \in AI_waiting) ~> (c \in Range(aiAdmitted))
    /\ \A c \in Callers : (aiPromise[c].state = "pending") ~> AI_settled(c)
    /\ [][\A r \in aiRunning :
            \/ \E r2 \in aiRunning' : r2.job = r.job
            \/ r.phase = "settled" /\ AI_settled(r.job.caller)]_vars

\* C5 witness: every request of a full run waited its turn on a one-slot
\* queue and all of them have settled.
C5_Witness ==
    /\ maxParallelJobs = 1
    /\ aiEnqueued = MaxRequests
    /\ Len(aiAdmitted) = MaxRequests
    /\ \A c \in Callers : AI_settled(c)

\* C6: jobs become active in exactly the order they were enqueued, and the
\* pending queue holds the requests not yet admitted in enqueue order.
C6_FifoAdmission ==
    /\ \A i \in DOMAIN aiAdmitted : aiAdmitted[i] = i
    /\ \A i \in DOMAIN aiQueue : aiQueue[i].caller = Len(aiAdmitted) + i
    /\ Len(aiAdmitted) + Len(aiQueue) = aiEnqueued

\* C6 witness: two requests were waiting together, the earlier one was
\* admitted first, and a later request finished before an earlier one
\* (completion order is free).
C6_Witness ==
    /\ Len(aiAdmitted) >= 2
    /\ Len(aiQueue) >= 1
    /\ \E c1, c2 \in Callers :
          c1 < c2 /\ AI_settled(c2) /\ aiPromise[c1].state = "pending"

\* C7 (as claimed): a request without a source image is rejected at once,
\* before admission: whenever the event loop is between callbacks, no such
\* request waits in the pending queue or occupies a slot.
C7_InvalidNeverQueuedNorActive ==
    AI_microtasksIdle =>
      /\ \A i \in DOMAIN aiQueue : aiQueue[i].request.hasSource
      /\ \A r \in aiRunning : r.job.request.hasSource

\* C8, one step: a promise is rejected only for a job whose own work
\* failed, resolved only for a job whose own work succeeded, and no other
\* promise changes in that step.
C8_Step ==
    \A c \in Callers :
      (aiPromise[c].state = "pending" /\ aiPromise'[c].state # "pending") =>
        /\ \E r \in aiRunning :
              /\ r.job.caller = c
              /\ r.phase = "returned"
              /\ (r.outcome = "ok") <=> (aiPromise'[c].state = "resolved")
        /\ \A c2 \in Callers \ {c} : aiPromise'[c2] = aiPromise[c2]

\* C8: a failure rejects only the failed job's caller, its slot is released
\* exactly once (the counter always equals the number of active jobs), and
\* after a failure every other request is still settled.
C8_FailureIsolation ==
    /\ [][C8_Step]_vars
    /\ [](activeJobs = Cardinality(aiRunning))
    /\ \A c \in Callers :
          (aiPromise[c].state = "pending" /\
             \E c2 \in Callers : aiPromise[c2].state = "rejected")
          ~> AI_settled(c)

\* C8 witness: on a one-slot queue a request failed and a request that was
\* waiting behind it has been resolved.
C8_Witness ==
    /\ maxParallelJobs = 1
    /\ \E c1, c2 \in Callers :
          /\ c1 < c2
          /\ aiPromise[c1].state = "rejected"
          /\ aiPromise[c2].state = "resolved"

PQ_terminal == {"completed", "error"}

\* C9: a job's status changes only queued -> printing, printing ->
\* completed, printing -> error, or printing -> queued with attempts <=
\* queueRetries; a completed or error job never changes again and is never
\* in the pending queue.
C9_Step ==
    \A id \in PQ_ids :
      LET a == pqJobs[id]
          b == pqJobs'[id]
      IN /\ a.status # b.status =>
              <<a.status, b.status>> \in
                 {<<"queued", "printing">>, <<"printing", "completed">>,
                  <<"printing", "error">>, <<"printing", "queued">>}
         /\ (a.status = "printing" /\ b.status = "queued") =>
              /\ b.attempts <= queueRetries
              /\ b.attempts = a.attempts + 1
         /\ a.status \in PQ_terminal =>
              /\ b = a
              /\ id \notin Range(pqQueue')

C9_StateMachine == [][C9_Step]_vars

\* C9 witness: one job has ended in error, another has completed and a
\* third was requeued after a failed dispatch.
C9_Witness ==
    \E i, j, k \in PQ_ids :
      /\ pqJobs[i].status = "error"
      /\ pqJobs[j].status = "completed"
      /\ pqJobs[k].status = "queued" /\ pqJobs[k].attempts >= 1

\* Every dispatch of the job so far has failed and its file was never
\* found missing.
PQ_alwaysFailed(id) ==
    /\ pqJobs[id].error # "File not found"
    /\ pqJobs[id].status # "completed"
    /\ pqJobs[id].attempts =
          pqHist[id].dispatches -
            (IF \E d \in pqDrains : d.job = id /\ d.pc = "dispatch"
             THEN 1 ELSE 0)

\* C10: a job whose file exists and whose dispatch always fails is set to
\* printing at most R+1 times, and when it has ended in error it was set to
\* printing and dispatched exactly R+1 times and has attempts = R+1 (R =
\* queueRetries).
C10_RetryBound ==
    \A id \in PQ_ids :
      PQ_alwaysFailed(id) =>
        /\ pqHist[id].printings <= queueRetries + 1
        /\ pqJobs[id].status = "error" =>
              /\ pqJobs[id].attempts = queueRetries + 1
              /\ pqHist[id].printings = queueRetries + 1
              /\ pqHist[id].dispatches = queueRetries + 1
        /\ pqJobs[id].status \in {"queued", "printing"} =>
              pqJobs[id].attempts <= queueRetries

\* C10 witness: with queueRetries = 2 a job has ended in error after being
\* set to printing three times.
C10_Witness ==
    /\ queueRetries = 2
    /\ \E id \in PQ_ids :
          /\ PQ_alwaysFailed(id)
          /\ pqJobs[id].status = "error"
          /\ pqHist[id].printings = 3

\* C11: every job has attempts <= queueRetries + 1, every queued or
\* printing job has attempts <= queueRetries, and attempts never decreases.
C11_AttemptsBounded ==
    /\ [](\A id \in PQ_ids :
            /\ pqJobs[id].attempts >= 0
            /\ pqJobs[id].attempts <= queueRetries + 1
            /\ pqJobs[id].status \in {"queued", "printing"} =>
                  pqJobs[id].attempts <= queueRetries)
    /\ [][\A id \in PQ_ids : pqJobs'[id].attempts >= pqJobs[id].attempts]_vars

\* C11 witness: one job has used all its queueRetries + 1 attempts while
\* another is queued for its last retry.
C11_Witness ==
    /\ queueRetries >= 1
    /\ \E i, j \in PQ_ids :
          /\ pqJobs[i].attempts = queueRetries + 1
          /\ pqJobs[j].status = "queued"
          /\ pqJobs[j].attempts = queueRetries

\* The step in which job id is found to have no file.
PQ_missingFileStep(id) ==
    /\ pqJobs[id].status = "printing"
    /\ pqJobs'[id].status = "error"
    /\ pqJobs'[id].error = "File not found"

\* C12: a job whose file is missing when it is picked up goes from printing
\* straight to error: attempts is not incremented (0 for a job picked up
\* for the first time), no print command is spawned for that pick-up, and
\* the job is never put back in the queue nor picked up again.
C12_MissingFile ==
    /\ [][\A id \in PQ_ids :
            /\ PQ_missingFileStep(id) =>
                  /\ pqJobs'[id].attempts = pqJobs[id].attempts
                  /\ pqHist'[id] = pqHist[id]
                  /\ pqQueue' = pqQueue
            /\ (pqJobs[id].status = "error" /\
                pqJobs[id].error = "File not found") =>
                  /\ pqJobs'[id] = pqJobs[id]
                  /\ pqHist'[id] = pqHist[id]
                  /\ id \notin Range(pqQueue')]_vars
    /\ [](\A id \in PQ_ids :
            pqJobs[id].error = "File not found" =>
               /\ pqJobs[id].status = "error"
               /\ id \notin Range(pqQueue)
               /\ pqHist[id].dispatches = pqJobs[id].attempts
               /\ pqHist[id].printings = pqJobs[id].attempts + 1)

\* C12 witness: a fresh job ended in error with attempts = 0 and no
\* dispatch, and another job lost its file after a failed dispatch.
C12_Witness ==
    \E i, j \in PQ_ids :
      /\ pqJobs[i].error = "File not found"
      /\ pqJobs[i].attempts = 0 /\ pqHist[i].dispatches = 0
      /\ pqJobs[j].error = "File not found"
      /\ pqJobs[j].attempts >= 1

\* C13: at most one drain loop is ever running, the flag is set exactly
\* while it runs, and whenever a job is in the pending queue a drain is
\* running (so a job enqueued during a drain is left to that drain, which
\* has not passed its last queue test).
C13_SingleDrain ==
    /\ Cardinality(pqDrains) <= 1
    /\ processing <=> pqDrains # {}
    /\ Len(pqQueue) > 0 => (processing /\ pqDrains # {})

\* C13 witness: an enqueue arrived during the file check of an earlier job
\* and its job waits in the queue for the running drain.
C13_Witness ==
    /\ \E d \in pqDrains : d.pc = "access" /\ d.job = 1
    /\ pqQueue = <<2>>
    /\ processing

\* C14: if every file check and every print command eventually returns,
\* every enqueued job eventually is completed or in error.
C14_EveryJobTerminates ==
    \A id \in 1..MaxPrintJobs :
      (id \in PQ_ids) ~> (id \in PQ_ids /\ pqJobs[id].status \in PQ_terminal)

\* C14 witness: all jobs of a full run are terminal although one failed for
\* good, one was requeued before it completed, and one was enqueued while
\* the drain was busy.
C14_Witness ==
    /\ Cardinality(PQ_ids) = MaxPrintJobs
    /\ \A id \in PQ_ids : pqJobs[id].status \in PQ_terminal
    /\ \E i, j \in PQ_ids :
          /\ pqJobs[i].status = "error" /\ pqJobs[i].attempts >= 1
          /\ pqJobs[j].status = "completed" /\ pqHist[j].printings >= 2

\* The jobs picked up (set to printing) in this step.
PQ_taken == {id \in DOMAIN pqJobs' :
               pqHist'[id].printings >
                 (IF id \in PQ_ids THEN pqHist[id].printings ELSE 0)}

\* The pending queue as the step's pick-up sees it: with the job of an
\* enqueue call, or the job a failed dispatch put back, at its tail.
PQ_queueAfterPush ==
    IF DOMAIN pqJobs' # PQ_ids
    THEN Append(pqQueue, Cardinality(PQ_ids) + 1)
    ELSE pqQueue

\* C15: the job picked up is always the head of the pending queue, the
\* queue only grows at its tail (a job requeued after a failed dispatch
\* goes behind every job queued at that moment), and jobs are picked up for
\* the first time in enqueue order.
C15_Ordering ==
    /\ [][/\ \A id \in PQ_taken :
               /\ PQ_queueAfterPush # <<>>
               /\ id = Head(PQ_queueAfterPush)
               /\ pqQueue' = Tail(PQ_queueAfterPush)
          /\ PQ_taken = {} =>
               \/ pqQueue' = PQ_queueAfterPush
               \/ \E id \in PQ_ids :
                    /\ pqJobs[id].status = "printing"
                    /\ pqJobs'[id].status = "queued"
                    /\ pqQueue' = Append(pqQueue, id)]_vars
    /\ [](\A i, j \in PQ_ids :
            (i < j /\ pqHist[j].printings >= 1) => pqHist[i].printings >= 1)

\* C15 witness: a job requeued after a failed dispatch stands in the queue
\* behind a job that was enqueued after it.
C15_Witness ==
    /\ Len(pqQueue) = 2
    /\ pqQueue[1] > pqQueue[2]
    /\ pqJobs[pqQueue[2]].attempts >= 1
    /\ pqJobs[pqQueue[1]].attempts = 0

\* The drain whose print command ended in this step, as it is afterwards.
PQ_spawnEnded(d2) ==
    /\ d2 \in pqDrains' /\ d2.pc = "loop" /\ d2.spawn # "none"
    /\ \E d \in pqDrains : d.pc = "dispatch" /\ d.id = d2.id

\* C20: a print command that cannot be spawned because the binary is absent
\* (ENOENT) counts as success: the job is completed, attempts is not
\* incremented, the job is not requeued.  Any other spawn error and a
\* non-zero exit code count as a failed dispatch; exit code 0 as success.
C20_EscapeHatch ==
    [][\A d2 \in pqDrains' :
         PQ_spawnEnded(d2) =>
           LET a == pqJobs[d2.job]
               b == pqJobs'[d2.job]
           IN /\ d2.spawn \in {"ENOENT", "exit0"} =>
                   /\ b.status = "completed"
                   /\ b.attempts = a.attempts
                   /\ b.error = "none"
                   /\ pqQueue' = pqQueue
              /\ d2.spawn \in {"exitNonZero", "spawnError"} =>
                   /\ b.status \in {"queued", "error"}
                   /\ b.attempts = a.attempts + 1
                   /\ b.error # "none"
                   /\ (b.status = "queued") <=> (pqQueue' = Append(pqQueue, d2.job))]_vars

\* C20 witness: the print binary was absent at a job's first dispatch and
\* the job is completed with attempts = 0.
C20_Witness ==
    \E d \in pqDrains :
      /\ d.pc = "loop" /\ d.spawn = "ENOENT"
      /\ pqJobs[d.job].status = "completed"
      /\ pqJobs[d.job].attempts = 0
      /\ d.job \notin Range(pqQueue)

\* C16: from the moment the last subscriber unregisters until a subscriber
\* registers or a capture is requested, the periodic timer is stopped (so no
\* tick can start a driver fetch).
C16_NoFetchWithoutSubscribers == liveQuiet => ~liveInterval

\* The step in which a tick's fetch returns, successfully or not.
Cam_tickReturned(ok) ==
    /\ camLast' # camLast
    /\ camLast'.op = "tick"
    /\ camLast'.ok = ok

\* C17: the timer starts when the first subscriber registers; while a
\* subscriber is registered and live view has not been explicitly stopped
\* the timer is running, and every frame a tick fetches successfully is
\* pushed to every subscriber registered at that moment.
C17_TimerWhileSubscribed ==
    /\ []((liveViewClients # <<>> /\ ~liveStopped) => liveInterval)
    /\ [][/\ (liveViewClients = <<>> /\ liveViewClients' # <<>>) =>
                liveInterval'
          /\ Cam_tickReturned(TRUE) =>
                camLast'.to = Range(liveViewClients)]_vars

\* C17 witness: a frame was pushed to two subscribers, one of them has
\* closed since, and the timer still runs for the other.
C17_Witness ==
    /\ camLast.op = "tick" /\ camLast.ok
    /\ camLast.to = {1, 2}
    /\ liveViewClients = <<2>>
    /\ liveInterval /\ ~liveStopped

\* C18: a tick starts exactly one driver fetch; when it succeeds the frame
\* is pushed to every subscriber registered at that moment, whether or not
\* a subscriber's callback raises, and becomes the cached latest frame.
C18_TickDelivery ==
    [][/\ (\E call \in camInflight' \ camInflight : call.op = "tick") =>
             /\ camCalls' = camCalls + 1
             /\ Cardinality(camInflight' \ camInflight) = 1
       /\ Cam_tickReturned(TRUE) =>
             /\ camLast'.to = Range(liveViewClients)
             /\ latestFrame' = camLast'.n]_vars

\* C19: when a tick's fetch fails no subscriber is called, the cached frame,
\* the timer, the live-view flag and the subscriber set are unchanged, and
\* the timer goes on fetching, whatever failed before.
C19_FailedTick ==
    /\ [][Cam_tickReturned(FALSE) =>
             /\ camLast'.to = {}
             /\ latestFrame' = latestFrame
             /\ liveInterval' = liveInterval
             /\ liveViewEnabled' = liveViewEnabled
             /\ liveViewClients' = liveViewClients]_vars
    /\ []((liveInterval /\ camCalls < MaxDriverCalls) => ENABLED Cam_tick)

\* C19 witness: the first two driver requests failed, the second a tick with
\* a subscriber registered, and the timer has started the next fetch.
C19_Witness ==
    /\ camLast.op = "tick" /\ ~camLast.ok /\ camLast.n = 2
    /\ latestFrame = 0
    /\ liveViewClients # <<>>
    /\ liveInterval /\ liveViewEnabled
    /\ DriverCall("tick", 3) \in camInflight

\* C21: the print tool being absent counts as success only behind an explicit
\* gate; the code reads no such gate, so none is enabled, and a dispatch
\* that fails with ENOENT must be handled as a failed dispatch (attempts
\* incremented, the job requeued or in error), never reported completed.
C21_EscapeHatchGated ==
    [][\A d2 \in pqDrains' :
         (PQ_spawnEnded(d2) /\ d2.spawn = "ENOENT") =>
            /\ pqJobs'[d2.job].status \in {"queued", "error"}
            /\ pqJobs'[d2.job].attempts = pqJobs[d2.job].attempts + 1]_vars

\* C28: enqueue returns the id of a job that is in the table from that
\* step on; a job is never removed from the table, totalJobs never
\* decreases and is the number of enqueue calls, getStatus of a returned id
\* gives that job's record and getStatus of any other id gives not-found.
C28_Retention ==
    /\ [][/\ PQ_ids \subseteq DOMAIN pqJobs'
          /\ Cardinality(DOMAIN pqJobs') >= PQ_totalJobs
          /\ \A id \in DOMAIN pqJobs' \ PQ_ids :
                /\ Cardinality(DOMAIN pqJobs') = PQ_totalJobs + 1
                /\ pqJobs'[id].id = id
                /\ pqJobs'[id].attempts = 0]_vars
    /\ [](/\ PQ_totalJobs = Cardinality(DOMAIN pqHist)
          /\ \A id \in 1..(MaxPrintJobs + 1) :
                IF id \in DOMAIN pqHist
                THEN PQ_getStatus(id) # PQ_notFound /\ PQ_getStatus(id).id = id
                ELSE PQ_getStatus(id) = PQ_notFound)

\* C28 witness: all jobs are still in the table after every one of them
\* finished, and an id that enqueue never returned is not found.
C28_Witness ==
    /\ PQ_totalJobs = MaxPrintJobs
    /\ \A id \in PQ_ids : PQ_getStatus(id).status \in PQ_terminal
    /\ pqDrains = {}
    /\ PQ_getStatus(MaxPrintJobs + 1) = PQ_notFound

\* C29: a job in error carries an error message and is in error because
\* its file was missing or because its dispatch failed queueRetries + 1
\* times; a completed job carries no error message.
C29_ErrorReporting ==
    \A id \in PQ_ids :
      /\ pqJobs[id].status = "error" =>
            /\ pqJobs[id].error # "none"
            /\ \/ pqJobs[id].error = "File not found"
               \/ /\ pqJobs[id].attempts = queueRetries + 1
                  /\ pqHist[id].dispatches = queueRetries + 1
      /\ pqJobs[id].status = "completed" => pqJobs[id].error = "none"

\* C29 witness: one job completed on a retry, one ran out of retries and
\* one lost its file.
C29_Witness ==
    \E i, j, k \in PQ_ids :
      /\ pqJobs[i].status = "completed" /\ pqJobs[i].attempts >= 1
      /\ pqJobs[j].status = "error" /\ pqJobs[j].error # "File not found"
      /\ pqJobs[k].status = "error" /\ pqJobs[k].error = "File not found"

\* The admitted callers whose promise is not settled yet.
AI_unsettledAdmitted == {c \in Range(aiAdmitted) : ~AI_settled(c)}

\* C23: a slot is released only after the finished job's caller has been
\* notified, so at most maxParallelJobs admitted requests are unsettled and,
\* with maxParallelJobs = 1, a job is admitted only when the promise of
\* every job admitted before it is settled.
C23_ReleaseAfterNotify ==
    /\ [](Cardinality(AI_unsettledAdmitted) <= maxParallelJobs)
    /\ [](maxParallelJobs = 1 =>
            \A k \in 1..(Len(aiAdmitted) - 1) : AI_settled(aiAdmitted[k]))
    /\ [][activeJobs' < activeJobs =>
            \A r \in aiRunning \ aiRunning' : AI_settled(r.job.caller)]_vars

\* C23 witness: with maxParallelJobs = 1, J1 is settled and J2, enqueued
\* while J1 ran, is being processed.
C23_Witness ==
    /\ maxParallelJobs = 1
    /\ aiAdmitted = <<1, 2>>
    /\ AI_settled(1)
    /\ 2 \in AI_active /\ ~AI_settled(2)

\* C24: whenever no setImmediate admission callback is pending, a request
\* waits in the FIFO only if every slot is taken.
C24_WorkConserving ==
    (aiImmediates = 0 /\ aiQueue # <<>>) => activeJobs = maxParallelJobs

\* C24 witness: after a completion and its admission callback, a request
\* waits behind a full set of active jobs.
C24_Witness ==
    /\ aiImmediates = 0
    /\ aiQueue # <<>>
    /\ activeJobs = maxParallelJobs
    /\ \E c \in Callers : AI_settled(c) /\ c \notin AI_active

\* C27: a request is admitted at most once and runs at most once; once its
\* promise is rejected the request is out of the FIFO for good and its
\* promise keeps the rejection.
C27_NeverRetries ==
    /\ [](/\ \A i, j \in DOMAIN aiAdmitted :
               i # j => aiAdmitted[i] # aiAdmitted[j]
          /\ \A c \in Callers :
               /\ c \in Range(aiAdmitted) => c \notin AI_waiting
               /\ Cardinality({r \in aiRunning : r.job.caller = c}) <= 1
               /\ Cardinality({i \in DOMAIN aiQueue :
                                 aiQueue[i].caller = c}) <= 1)
    /\ [][\A c \in Callers :
            /\ (c \in AI_active /\ c \notin AI_active') =>
                  (AI_settled(c) /\ c \notin AI_waiting')
            /\ aiPromise[c].state = "rejected" =>
                  (aiPromise'[c] = aiPromise[c] /\ c \notin AI_waiting')]_vars

\* C27 witness: the first admitted request failed and is gone, and a later
\* request has been admitted in the freed slot.
C27_Witness ==
    /\ Len(aiAdmitted) >= 2
    /\ aiPromise[aiAdmitted[1]].state = "rejected"
    /\ aiPromise[aiAdmitted[1]].value.kind = "GenerationFailed"
    /\ aiAdmitted[1] \notin AI_active
    /\ aiAdmitted[2] \in AI_active
    /\ maxParallelJobs = 1

\* C30: getLatestFrame returns the cached frame without a driver request when
\* there is one; otherwise it makes exactly one driver request, whose frame
\* is cached and returned; when that request fails the caller gets absent,
\* no error, and the call caches nothing.
C30_GetLatestFrame ==
    [][/\ (camLast' # camLast /\ camLast'.op = "cached") =>
             /\ latestFrame # 0
             /\ Cam_getLatestFrameValue(camLast') = latestFrame
             /\ camCalls' = camCalls /\ camInflight' = camInflight
             /\ latestFrame' = latestFrame
       /\ (\E call \in camInflight' \ camInflight : call.op = "latest") =>
             /\ latestFrame = 0
             /\ camCalls' = camCalls + 1
             /\ Cardinality(camInflight' \ camInflight) = 1
       /\ (camLast' # camLast /\ camLast'.op = "latest") =>
             /\ camCalls' = camCalls
             /\ ~Cam_raises(camLast')
             /\ IF camLast'.ok
                THEN /\ Cam_getLatestFrameValue(camLast') = camLast'.n
                     /\ latestFrame' = camLast'.n
                ELSE /\ Cam_getLatestFrameValue(camLast') = 0
                     /\ latestFrame' = latestFrame]_vars

\* C30 witness: a getLatestFrame request failed and left the cache empty, a
\* second one is waiting for the driver.
C30_Witness ==
    /\ camLast.op = "latest" /\ ~camLast.ok
    /\ latestFrame = 0
    /\ \E call \in camInflight : call.op = "latest" /\ call.n > camLast.n

\* initialize() has returned or raised.
Cam_initialized == boot.pc \in {"ready", "failed"}

\* What holds of the driver whether or not the hardware driver was tried:
\* after initialize exactly one driver is held, it is the hardware driver
\* only if its construction and init succeeded, a failed hardware driver
\* gives way to the simulated one, and nothing is probed or chosen again.
Cam_driverSettled ==
    /\ [](/\ boot.pc = "ready" <=> driver \in {"canon", "mock"}
          /\ driver = "canon" <=> (boot.canonNew = "ok" /\ boot.canonInit = "ok")
          /\ driver = "mock" =>
                /\ boot.mockInit = "ok"
                /\ boot.canonNew = "ok" => boot.canonInit = "failed"
          /\ (Cam_initialized /\ "failed" \in {boot.canonNew, boot.canonInit})
                => boot.mockInit # "none")
    /\ [][driver # "none" => (driver' = driver /\ boot' = boot)]_vars

\* C22 as stated: initialize always attempts the hardware driver and falls
\* back to the simulated driver on any failure; one driver is held, the
\* hardware driver only if its init succeeded, and the choice is final.
C22_AlwaysTriesCanon ==
    /\ [](Cam_initialized => boot.canonNew # "none")
    /\ Cam_driverSettled

\* C22 amended: initialize attempts the hardware driver exactly when the
\* platform is win32 and LOOQA_FORCE_MOCK_CAMERA is unset, and otherwise
\* goes straight to the simulated driver; the rest as stated.
C22_DriverSelection ==
    /\ [](Cam_initialized =>
            (boot.canonNew # "none" <=> (boot.win32 /\ ~boot.forceMock)))
    /\ Cam_driverSettled

\* C22 witness: the hardware driver was constructed, its init failed, the
\* simulated driver took over, and a driver request has failed since without
\* the choice being revisited.
C22_Witness ==
    /\ driver = "mock"
    /\ boot.canonNew = "ok" /\ boot.canonInit = "failed"
    /\ camLast.op # "none" /\ ~camLast.ok
    /\ camInflight # {}

\* ---------------------------------------------------------------- C25, C26

\* The requested value clamped into lo..hi, d when omitted.
Gen_clamped(asked, lo, hi, d) ==
    IF ~asked.given THEN d
    ELSE IF asked.value < lo THEN lo
    ELSE IF asked.value > hi THEN hi
    ELSE asked.value

\* The successful runs of generate().
Gen_okRuns == {k \in DOMAIN genRuns : genRuns[k].ok}

\* C25: a successful result has as many outputs as the requested variations
\* clamped into [1,5] (1 when omitted) and the same number of previews, each
\* preview encoding its output's buffer, and every variation is made with
\* the requested intensity clamped into [0,1] (0.7 when omitted).
C25_Clamping ==
    \A k \in Gen_okRuns :
        LET n    == Gen_clamped(genRequest.variations, 1, 5, 1)
            used == Gen_clamped(genRequest.intensity, 0, 100, 70)
            run  == genRuns[k]
        IN /\ Len(run.outputs) = n
           /\ Len(run.previews) = n
           /\ \A j \in 1..n :
                  /\ run.outputs[j].v = j
                  /\ run.outputs[j].image.intensity = used
                  /\ run.previews[j] = run.outputs[j].image

\* A request for 10 variations at intensity -1 gave 5 outputs at intensity
\* 0, and one for 0 variations would give 1 (the same run under the other
\* request is covered by the invariant; here the upper clamp is witnessed).
C25_Witness ==
    /\ genRequest.variations = Given(10)
    /\ genRequest.intensity = Given(-100)
    /\ \E k \in Gen_okRuns :
           /\ Len(genRuns[k].outputs) = 5
           /\ Len(genRuns[k].previews) = 5
           /\ genRuns[k].outputs[5].image.intensity = 0

\* 1 + ((i*13) mod 7)/20 for i = 0..4, in twentieths.
Gen_factors == <<20, 26, 25, 24, 23>>

\* C26: the factor of the variation of index i is 1 + ((i*13) mod 7)/20,
\* whatever the style, the intensity and the run, and two runs of the same
\* request compute the same parameters for every variation.
C26_FactorDeterministic ==
    /\ \A k \in Gen_okRuns :
           \A j \in DOMAIN genRuns[k].outputs :
               /\ genRuns[k].outputs[j].image.factor
                      = 20 + (((j - 1) * 13) % 7)
               /\ genRuns[k].outputs[j].image.factor = Gen_factors[j]
               /\ genRuns[k].outputs[j].image.seed = j - 1
    /\ \A k1, k2 \in Gen_okRuns :
           genRuns[k1].outputs = genRuns[k2].outputs

\* Two successful runs of a request for five variations.
C26_Witness ==
    /\ Len(genRuns) >= 2
    /\ {1, 2} \subseteq Gen_okRuns
    /\ Len(genRuns[1].outputs) = 5
    /\ genRuns[2].outputs[2].image.factor = 26

\* ---------------------------------------------------------------- C31, C32

\* The positions of job id in the pending queue.
PQ_positions(id) == {i \in DOMAIN pqQueue : pqQueue[i] = id}

\* C31: wherever getMetrics or getStatus can run, a job is in the pending
\* queue exactly when its status is `queued`, it is there at most once, and
\* so queued + printing + completed + errors = totalJobs, `queued` being the
\* length of the pending queue.
C31_MetricsConsistent ==
    LET m == PQ_getMetrics IN
    /\ \A id \in PQ_ids :
           /\ PQ_positions(id) # {} <=> PQ_getStatus(id).status = "queued"
           /\ Cardinality(PQ_positions(id)) <= 1
    /\ Range(pqQueue) \subseteq PQ_ids
    /\ m.queued = Cardinality(PQ_withStatus("queued"))
    /\ m.queued + m.printing + Cardinality(PQ_withStatus("completed"))
           + m.errors = m.totalJobs

\* One job waits again after a failed dispatch, one is printing and one
\* has ended in error.
C31_Witness ==
    LET m == PQ_getMetrics IN
    /\ m.queued = 1 /\ m.printing = 1 /\ m.errors = 1 /\ m.totalJobs = 3
    /\ \E id \in PQ_withStatus("queued") : pqJobs[id].attempts > 0

\* The pending queue q without job j.
RECURSIVE PQ_without(_, _)
PQ_without(q, j) ==
    IF q = <<>> THEN <<>>
    ELSE IF Head(q) = j THEN PQ_without(Tail(q), j)
    ELSE <<Head(q)>> \o PQ_without(Tail(q), j)

\* C32: a step of the queue touches one job: the status, attempts, error,
\* copies and printer of every other job are as before and so is the order
\* of the other jobs in the pending queue; the one job keeps its id, copies
\* and printer.
C32_FrameCondition ==
    [][\E j \in DOMAIN pqJobs' :
          /\ PQ_ids \subseteq DOMAIN pqJobs'
          /\ \A id \in PQ_ids \ {j} : pqJobs'[id] = pqJobs[id]
          /\ PQ_without(pqQueue', j) = PQ_without(pqQueue, j)
          /\ j \in PQ_ids =>
                 /\ pqJobs'[j].id = pqJobs[j].id
                 /\ pqJobs'[j].copies = pqJobs[j].copies
                 /\ pqJobs'[j].printer = pqJobs[j].printer]_pqVars

\* Jobs of different copies and printers: the first has ended in error
\* after a failed dispatch, the second is printing and the third still
\* waits untouched.
C32_Witness ==
    /\ Cardinality(PQ_ids) = 3
    /\ pqJobs[1].status = "error" /\ pqJobs[1].attempts > 0
    /\ pqJobs[1].copies = 2 /\ pqJobs[1].printer = 2
    /\ pqJobs[2].status = "printing"
    /\ pqJobs[3] = PrintJobState(3, PlainJob)
    /\ pqQueue = <<3>>

\* ---------------------------------------------------------------- C33, C34

\* The driver requests of kind op started by the step.
Cam_started(op) == {c \in camInflight' \ camInflight : c.op = op}

\* The step is the return of a driver request of kind op.
Cam_returned(op) == camLast' # camLast /\ camLast'.op = op

\* C33: capture() makes one driver capture call; when it returns the frame
\* is cached and lastCapture is set, and when it fails both are as before;
\* the timer, the live-view flag and the listener set are left alone
\* throughout.
C33_CaptureOneShot ==
    [][/\ Cam_started("capture") # {} =>
              /\ Cardinality(camInflight' \ camInflight) = 1
              /\ camCalls' = camCalls + 1
              /\ UNCHANGED <<liveInterval, camTimers, liveViewEnabled,
                             liveViewClients, latestFrame, lastCapture>>
       /\ Cam_returned("capture") =>
              /\ camInflight' = camInflight \ {DriverCall("capture", camLast'.n)}
              /\ camCalls' = camCalls
              /\ UNCHANGED <<liveInterval, camTimers, liveViewEnabled,
                             liveViewClients>>
              /\ IF camLast'.ok
                 THEN /\ latestFrame' = camLast'.n
                      /\ lastCapture' = camLast'.n
                 ELSE UNCHANGED <<latestFrame, lastCapture>>]_camVars

\* A capture has failed after an earlier one succeeded, with the timer
\* running and a listener registered: the earlier still is cached.
C33_Witness ==
    /\ camLast.op = "capture" /\ ~camLast.ok
    /\ lastCapture # 0 /\ latestFrame = lastCapture
    /\ camLast.n > lastCapture
    /\ camTimers = 1 /\ liveViewEnabled /\ liveViewClients # <<>>

\* C34: however startLiveView and stopLiveView are called there is at most
\* one interval timer, the handle the service holds is that timer, and
\* status.liveView is true exactly when the timer runs.
C34_SingleTimer ==
    /\ camTimers \in {0, 1}
    /\ liveInterval <=> camTimers = 1
    /\ Cam_getStatus.liveView <=> camTimers = 1

\* The timer runs and status.liveView says so; one of its ticks has returned
\* while an earlier one is still in flight.
C34_Witness ==
    /\ camTimers = 1 /\ Cam_getStatus.liveView
    /\ camLast.op = "tick"
    /\ \E c \in camInflight : c.op = "tick" /\ c.n < camLast.n

\* ----------------------------------------------------------- C35, C36, C37

\* The step is the interval callback resuming with a frame.
Cam_frameArrived == Cam_returned("tick") /\ camLast'.ok

\* C35 (first half): a frame is never passed to a listener that is not
\* registered when the frame arrives, whenever it unregistered.
C35_NoneAfterUnregister ==
    [][Cam_frameArrived => camLast'.to \subseteq Range(liveViewClients)]_camVars

\* C35: a frame goes to the listeners registered when it arrives and to no
\* other: a listener that has unregistered gets nothing, even if the fetch
\* was in flight when it left, and a listener that registered while the
\* fetch was in flight gets the frame.
C35_DeliveryFollowsRegistration ==
    [][Cam_frameArrived => camLast'.to = Range(liveViewClients)]_camVars

\* C36: frames arrive in the order their fetches were started: a frame is
\* never older than the cached one it replaces nor than the frame the
\* listeners were given before.
C36_FrameOrder ==
    [][Cam_frameArrived =>
          /\ latestFrame' = camLast'.n
          /\ camLast'.n > latestFrame
          /\ (camLast.op = "tick" /\ camLast.ok) => camLast'.n > camLast.n
      ]_camVars

\* C37: once stopLiveView has returned and until startLiveView is called
\* again, a tick calls no listener and does not overwrite the cached frame.
C37_QuietAfterStop ==
    [][(Cam_returned("tick") /\ ~liveInterval) =>
          /\ camLast'.to = {}
          /\ latestFrame' = latestFrame]_camVars

\* ---------------------------------------------------------------------- C38

\* The callers that have called enqueue, and those whose promise is settled.
AI_enqueuedCallers == 1..aiEnqueued

AI_settledCallers == {c \in AI_enqueuedCallers : AI_settled(c)}

\* The requests that neither wait nor hold a slot.
AI_finished == AI_enqueuedCallers \ (AI_waiting \cup AI_active)

\* C38 as stated: getPendingJobs() is the number of requests enqueued less
\* the number whose work has finished, in every state, so it is 0 as soon as
\* every enqueued request has settled.
C38_ZeroOnceSettled ==
    /\ AI_getPendingJobs = aiEnqueued - Cardinality(AI_settledCallers)
    /\ (aiEnqueued > 0 /\ AI_settledCallers = AI_enqueuedCallers)
           => AI_getPendingJobs = 0

\* C38: getPendingJobs() = FIFO length + activeJobs = requests enqueued less
\* requests whose slot has been released; every request is exactly one of
\* waiting, active (holding a slot) and finished; a finished request has
\* settled, and when no post-completion callback is pending the settled
\* requests are the finished ones, so the count is 0 once all have settled.
C38_Accounting ==
    /\ AI_getPendingJobs = Len(aiQueue) + activeJobs
    /\ Len(aiQueue) = Cardinality(AI_waiting)
    /\ activeJobs = Cardinality(AI_active)
    /\ Cardinality(aiRunning) = Cardinality(AI_active)
    /\ AI_waiting \cap AI_active = {}
    /\ AI_waiting \cup AI_active \subseteq AI_enqueuedCallers
    /\ AI_getPendingJobs = aiEnqueued - Cardinality(AI_finished)
    /\ AI_finished \subseteq AI_settledCallers
    /\ AI_microtasksIdle =>
           /\ AI_finished = AI_settledCallers
           /\ AI_settledCallers = AI_enqueuedCallers => AI_getPendingJobs = 0

\* One request is finished, one holds the only slot and one waits; and the
\* finished one was rejected.
C38_Witness ==
    /\ maxParallelJobs = 1
    /\ aiEnqueued = 3
    /\ AI_finished = {1} /\ aiPromise[1].state = "rejected"
    /\ AI_active = {2} /\ AI_waiting = {3}
    /\ AI_getPendingJobs = 2

\* ---------------------------------------------------------------------- C39

\* C39: the numerators (i*13) mod 7 of the indices 0..4 are pairwise
\* different, so the variations of one request are made with pairwise
\* different perturbation factors.
C39_DistinctFactors ==
    /\ \A i, j \in 0..4 : i # j => (i * 13) % 7 # (j * 13) % 7
    /\ \A k \in Gen_okRuns :
           \A i, j \in DOMAIN genRuns[k].outputs :
               i # j => genRuns[k].outputs[i].image.factor
                            # genRuns[k].outputs[j].image.factor

\* A request for exactly five variations was served with five factors.
C39_Witness ==
    /\ genRequest.variations = Given(5)
    /\ \E k \in Gen_okRuns :
           Cardinality({genRuns[k].outputs[i].image.factor :
                           i \in DOMAIN genRuns[k].outputs}) = 5

\* ---------------------------------------------------------------------- C40

\* C40: every promise the legacy enqueue returns is eventually resolved, and
\* with the result of its own job.
C40_LegacyResolvesOwn ==
    /\ \A c \in Callers :
           (lgPromise[c].state = "pending")
               ~> (lgPromise[c].state = "resolved")
    /\ [](\A c \in Callers :
              lgPromise[c].state = "resolved" => lgPromise[c].value.of = c)

\* C40 (second half): a resolved promise holds the result of its own job.
C40_LegacyOwnResult ==
    \A c \in Callers :
        lgPromise[c].state = "resolved" => lgPromise[c].value.of = c


====
